---------------------------- MODULE Spec2Model ----------------------------
(***************************************************************************)
(* Strategy execution engine of the Binance futures bot:                   *)
(*   - OCOOrderBot.monitor_and_cancel_oco   (src/src/advanced/oco.py)      *)
(*   - GridBot.create_grid_orders and                                      *)
(*     GridBot.monitor_and_rebalance_grid   (src/src/advanced/             *)
(*                                           grid_strategy.py)             *)
(*   - TWAPBot.execute_twap                 (src/src/advanced/twap.py)     *)
(* and the BasicBot gateway helpers they call (src/src/base_bot.py).       *)
(*                                                                         *)
(* Units.  A price is an integer number of price units; one tick (0.01,    *)
(* the precision of round(x, 2)) is TickUnits units, so prices finer than  *)
(* a tick exist and rounding is not the identity.  A quantity is an        *)
(* integer number of 0.001 units.                                          *)
(*                                                                         *)
(* Gateway calls answer "ok", or raise BinanceAPIException ("api"), or     *)
(* raise any other exception ("other": a transport timeout, a              *)
(* BinanceRequestException, ...), chosen nondeterministically.             *)
(***************************************************************************)
EXTENDS Integers, Sequences, FiniteSets, TLC

(***************************************************************************)
(* Bounds of the model.                                                    *)
(***************************************************************************)
TickUnits == 2
MaxChecks == 3
MaxLevels == 3
MaxIterations == 2
MaxEnvSteps == 1
MaxSlices == 3
MaxLedger == 2

VARIABLES
    oco_pc,          \* "monitor" | "returned" | "raised"
    max_checks,      \* parameter of monitor_and_cancel_oco
    checks,          \* local: completed poll cycles
    tp_status,       \* local: last status read for the take-profit leg
    sl_status,       \* local: last status read for the stop-loss leg
    oco_result,      \* "pending" | "TP" | "SL" | "None"
    ex_tp,           \* exchange: status of the take-profit order
    ex_sl,           \* exchange: status of the stop-loss order
    cancel_calls,    \* gateway log: order ids passed to futures_cancel_order
    status_queries,  \* gateway log: number of futures_get_order calls
    filled_seen,     \* "none" | "TP" | "SL": first leg a poll saw FILLED
    last_poll        \* gateway log: answers of the status queries of the
                     \* last poll, and the exception that ended it

oco_vars == <<oco_pc, max_checks, checks, tp_status, sl_status, oco_result,
              ex_tp, ex_sl, cancel_calls, status_queries, filled_seen,
              last_poll>>

VARIABLES
    twap_pc,          \* "entry" | "loop" | "returned" | "raised"
    twap_plan,        \* arguments of execute_twap
    i,                \* loop index of `for i in range(num_orders)`
    executed_orders,  \* local list, returned by execute_twap
    twap_exc,         \* exception execute_twap raised, "none" if none
    twap_calls        \* gateway and sleep log, in program order

twap_vars == <<twap_pc, twap_plan, i, executed_orders, twap_exc, twap_calls>>

VARIABLES
    grid_pc,         \* "create" | "levels" | "created" | "loop" | "placing" |
                     \* "finished" | "raised"
    grid_plan,       \* arguments of create_grid_orders / monitor_and_rebalance_grid
    max_iterations,  \* parameter of monitor_and_rebalance_grid
    grid_i,          \* loop index of `for i in range(grid_levels)` in create
    current_price,   \* local: the price last fetched
    buy_orders,      \* local list of create_grid_orders, returned
    sell_orders,     \* local list of create_grid_orders, returned
    iteration,       \* local counter of monitor_and_rebalance_grid
    open_orders,     \* local: the open-order list last fetched
    missing_buy_prices,   \* local set, the part not yet iterated
    missing_sell_prices,  \* local set, the part not yet iterated
    grid_exc,        \* exception raised and the call that raised it
    ex_price,        \* exchange: the symbol's price
    ex_open,         \* exchange: the symbol's open orders
    ex_next_id,      \* exchange: next order id
    env_steps,       \* number of exchange-side changes so far
    price_fetches,   \* gateway log: ticker calls of the running entry point
    grid_calls,      \* gateway log of create, or of the current cycle
    env_changed,     \* the price moved or an order left since the last fetch
    idem_armed,      \* the cycle before ran clean and nothing changed since
    prev_placed      \* placements issued by the cycle before

grid_vars == <<grid_pc, grid_plan, max_iterations, grid_i, current_price,
               buy_orders, sell_orders, iteration, open_orders,
               missing_buy_prices, missing_sell_prices, grid_exc, ex_price,
               ex_open, ex_next_id, env_steps, price_fetches, grid_calls,
               env_changed, idem_armed, prev_placed>>

VARIABLES
    place_pc,      \* "entry" | "tp" | "sl" | "returned" | "raised"
    place_plan,    \* arguments of place_oco_order
    place_error,   \* exception place_oco_order raised, "none" if none
    place_calls,   \* gateway and sleep log, in program order
    place_result,  \* the returned (tp_order, sl_order), <<>> if none
    ex_resting     \* exchange: orders accepted for the symbol

place_vars == <<place_pc, place_plan, place_error, place_calls,
                place_result, ex_resting>>

VARIABLE
    interrupted    \* the operator's interrupt (Ctrl+C) has been delivered

VARIABLES
    summary_pc,    \* "call" | "returned" | "raised"
    summary_orders,  \* argument `orders` of get_twap_summary
    summary        \* the returned dict, as its set of <<key, value>> items

summary_vars == <<summary_pc, summary_orders, summary>>

vars == <<oco_vars, twap_vars, grid_vars, place_vars, interrupted,
          summary_vars>>

(***************************************************************************)
(* A strategy that is not the one being run: its state never changes.      *)
(***************************************************************************)
OcoIdle ==
    /\ oco_pc = "idle" /\ max_checks = 0 /\ checks = 0
    /\ tp_status = "none" /\ sl_status = "none" /\ oco_result = "pending"
    /\ ex_tp = "NEW" /\ ex_sl = "NEW"
    /\ cancel_calls = <<>> /\ status_queries = 0 /\ filled_seen = "none"
    /\ last_poll = [tpq |-> "none", slq |-> "none", exc |-> "none"]

TwapIdle ==
    /\ twap_pc = "idle" /\ twap_plan = <<>> /\ i = 0
    /\ executed_orders = <<>> /\ twap_exc = "none" /\ twap_calls = <<>>

GridIdle ==
    /\ grid_pc = "idle" /\ grid_plan = <<>> /\ max_iterations = 0
    /\ grid_i = 0 /\ current_price = 0
    /\ buy_orders = <<>> /\ sell_orders = <<>>
    /\ iteration = 0 /\ open_orders = {}
    /\ missing_buy_prices = {} /\ missing_sell_prices = {}
    /\ grid_exc = [exc |-> "none", origin |-> "none"] /\ ex_price = 0 /\ ex_open = {} /\ ex_next_id = 1
    /\ env_steps = 0 /\ price_fetches = 0 /\ grid_calls = <<>>
    /\ env_changed = FALSE /\ idem_armed = FALSE /\ prev_placed = 0

PlaceIdle ==
    /\ place_pc = "idle" /\ place_plan = <<>> /\ place_error = "none"
    /\ place_calls = <<>> /\ place_result = <<>> /\ ex_resting = {}

SummaryIdle ==
    summary_pc = "idle" /\ summary_orders = <<>> /\ summary = {}

(***************************************************************************)
(* Program constants.                                                      *)
(***************************************************************************)
MIN_QUANTITY == 1
MIN_PRICE == TickUnits

Outcomes == {"ok", "api", "other"}

(***************************************************************************)
(* Answers of futures_create_order: as above, where a BinanceAPIException  *)
(* may also carry an authentication error (code -2014 / -2015, invalid     *)
(* API key or signature).                                                  *)
(***************************************************************************)
PlaceOutcomes == Outcomes \cup {"api_auth"}

(***************************************************************************)
(* The exception a failed gateway call raises in the caller.               *)
(***************************************************************************)
ClientException(outcome) ==
    IF outcome \in {"api", "api_auth"} THEN "BinanceAPIException"
    ELSE "Exception"

(***************************************************************************)
(* round(x, 2) of x = num / den price units (den > 0, num >= 0): the       *)
(* nearest whole tick, ties to the even tick, as a price in units.         *)
(***************************************************************************)
RoundTick(num, den) ==
    LET d == den * TickUnits
        q == num \div d
        r == num - q * d
    IN  IF 2 * r < d THEN q * TickUnits
        ELSE IF 2 * r > d THEN (q + 1) * TickUnits
        ELSE IF q % 2 = 0 THEN q * TickUnits
        ELSE (q + 1) * TickUnits

(***************************************************************************)
(*                          OCO pair monitor                               *)
(***************************************************************************)
TP_ORDER_ID == 1
SL_ORDER_ID == 2

OrderStatus == {"NEW", "PARTIALLY_FILLED", "FILLED", "CANCELED", "EXPIRED",
                "REJECTED"}
OpenStatus == {"NEW", "PARTIALLY_FILLED"}

(***************************************************************************)
(* Which exceptions the inner handler of the poll loop swallows.           *)
(***************************************************************************)
MonitorCatchesNothing(exc) == FALSE

MonitorCatches(exc) == exc = "BinanceAPIException"

(***************************************************************************)
(* BasicBot.cancel_order: logs and re-raises whatever the client raised.   *)
(***************************************************************************)
cancel_order(outcome) ==
    IF outcome = "ok" THEN "ok" ELSE ClientException(outcome)

(***************************************************************************)
(* What the exchange can answer to a cancel of an order in `status`: an    *)
(* order that is no longer open cannot be cancelled (unknown order).       *)
(***************************************************************************)
CancelOutcomes(status) ==
    IF status \in OpenStatus THEN Outcomes ELSE Outcomes \ {"ok"}

(***************************************************************************)
(* The order id passed to cancel_order when `leg` is seen FILLED: the      *)
(* other leg of the pair.                                                  *)
(***************************************************************************)
CancelsFilledLeg(leg) == IF leg = "TP" THEN TP_ORDER_ID ELSE SL_ORDER_ID

CancelledOnFill(leg) == IF leg = "TP" THEN SL_ORDER_ID ELSE TP_ORDER_ID

(***************************************************************************)
(* `tp_status in ['CANCELED', 'EXPIRED'] and sl_status in [...]`.          *)
(***************************************************************************)
BothTerminatedNever(tps, sls) == FALSE

EitherTerminated(tps, sls) ==
    tps \in {"CANCELED", "EXPIRED"} \/ sls \in {"CANCELED", "EXPIRED"}

BothTerminated(tps, sls) ==
    tps \in {"CANCELED", "EXPIRED"} /\ sls \in {"CANCELED", "EXPIRED"}

(***************************************************************************)
(* One pass of the body of `while checks < max_checks`, given the answers  *)
(* of the two status queries (tpq, slq), the statuses the exchange holds   *)
(* (tps, sls) and the answer of the cancel call (cr), should one be made.  *)
(*   queries: futures_get_order calls made                                 *)
(*   read   : both statuses were read                                      *)
(*   cancel : order id cancelled, 0 for none                               *)
(*   exit   : "TP" | "SL" | "None" returned, "raise", or "continue"        *)
(*            (sleep, checks += 1)                                         *)
(***************************************************************************)
AfterException(exc, queries, read, cancel) ==
    [queries |-> queries, read |-> read, cancel |-> cancel, exc |-> exc,
     exit |-> IF MonitorCatches(exc) THEN "continue" ELSE "raise"]

PollCycle(tpq, slq, tps, sls, cr) ==
    IF tpq # "ok" THEN AfterException(ClientException(tpq), 1, FALSE, 0)
    ELSE IF slq # "ok" THEN AfterException(ClientException(slq), 2, FALSE, 0)
    ELSE IF tps = "FILLED" THEN
        IF cancel_order(cr) = "ok"
        THEN [queries |-> 2, read |-> TRUE, cancel |-> CancelledOnFill("TP"),
              exc |-> "none", exit |-> "TP"]
        ELSE AfterException(cancel_order(cr), 2, TRUE, CancelledOnFill("TP"))
    ELSE IF sls = "FILLED" THEN
        IF cancel_order(cr) = "ok"
        THEN [queries |-> 2, read |-> TRUE, cancel |-> CancelledOnFill("SL"),
              exc |-> "none", exit |-> "SL"]
        ELSE AfterException(cancel_order(cr), 2, TRUE, CancelledOnFill("SL"))
    ELSE IF BothTerminated(tps, sls)
        THEN [queries |-> 2, read |-> TRUE, cancel |-> 0, exc |-> "none",
              exit |-> "None"]
    ELSE [queries |-> 2, read |-> TRUE, cancel |-> 0, exc |-> "none",
          exit |-> "continue"]

(***************************************************************************)
(* `checks += 1` at the end of a poll that did not return.                 *)
(***************************************************************************)
ChecksNotCounted(c) == c

ChecksAfterPoll(c) == c + 1

OcoInit ==
    /\ oco_pc = "monitor"
    /\ max_checks \in 1..MaxChecks
    /\ checks = 0
    /\ tp_status = "none"
    /\ sl_status = "none"
    /\ oco_result = "pending"
    /\ ex_tp = "NEW"
    /\ ex_sl = "NEW"
    /\ cancel_calls = <<>>
    /\ status_queries = 0
    /\ filled_seen = "none"
    /\ last_poll = [tpq |-> "none", slq |-> "none", exc |-> "none"]
    /\ TwapIdle
    /\ GridIdle
    /\ PlaceIdle
    /\ interrupted = FALSE
    /\ SummaryIdle

(***************************************************************************)
(* One poll cycle of monitor_and_cancel_oco.                               *)
(***************************************************************************)
MonitorCycle ==
    /\ oco_pc = "monitor"
    /\ checks < max_checks
    /\ \E tpq \in Outcomes, slq \in Outcomes :
       \E cr \in CancelOutcomes(IF ex_tp = "FILLED" THEN ex_sl ELSE ex_tp) :
         LET c == PollCycle(tpq, slq, ex_tp, ex_sl, cr) IN
         /\ status_queries' = status_queries + c.queries
         /\ tp_status' = IF c.read THEN ex_tp ELSE tp_status
         /\ sl_status' = IF c.read THEN ex_sl ELSE sl_status
         /\ filled_seen' =
              IF filled_seen # "none" \/ ~c.read THEN filled_seen
              ELSE IF ex_tp = "FILLED" THEN "TP"
              ELSE IF ex_sl = "FILLED" THEN "SL"
              ELSE "none"
         /\ cancel_calls' =
              IF c.cancel = 0 THEN cancel_calls
              ELSE Append(cancel_calls, c.cancel)
         /\ ex_sl' = IF c.cancel = SL_ORDER_ID /\ cr = "ok" THEN "CANCELED" ELSE ex_sl
         /\ ex_tp' = IF c.cancel = TP_ORDER_ID /\ cr = "ok" THEN "CANCELED" ELSE ex_tp
         /\ checks' = IF c.exit = "continue" THEN ChecksAfterPoll(checks)
                      ELSE checks
         /\ last_poll' = [tpq |-> tpq,
                          slq |-> IF tpq = "ok" THEN slq ELSE "skipped",
                          exc |-> c.exc]
         /\ oco_pc' = CASE c.exit = "continue" -> "monitor"
                        [] c.exit = "raise" -> "raised"
                        [] OTHER -> "returned"
         /\ oco_result' = IF c.exit \in {"TP", "SL", "None"} THEN c.exit
                          ELSE oco_result
    /\ UNCHANGED <<max_checks, twap_vars, grid_vars, place_vars, interrupted, summary_vars>>

(***************************************************************************)
(* The loop condition fails: the timeout return.                           *)
(***************************************************************************)
MonitorTimeout ==
    /\ oco_pc = "monitor"
    /\ checks >= max_checks
    /\ oco_pc' = "returned"
    /\ oco_result' = "None"
    /\ UNCHANGED <<max_checks, checks, tp_status, sl_status, ex_tp, ex_sl,
                   cancel_calls, status_queries, filled_seen, last_poll>>
    /\ UNCHANGED <<twap_vars, grid_vars, place_vars, interrupted, summary_vars>>

(***************************************************************************)
(* The exchange moves an open leg to another status while the monitor      *)
(* sleeps; a leg that is no longer open keeps its status.                  *)
(***************************************************************************)
ExchangeLegUpdate ==
    /\ oco_pc = "monitor"
    /\ \/ /\ ex_tp \in OpenStatus
          /\ ex_tp' \in OrderStatus \ {"NEW", ex_tp}
          /\ UNCHANGED ex_sl
       \/ /\ ex_sl \in OpenStatus
          /\ ex_sl' \in OrderStatus \ {"NEW", ex_sl}
          /\ UNCHANGED ex_tp
    /\ UNCHANGED <<oco_pc, max_checks, checks, tp_status, sl_status, oco_result,
                   cancel_calls, status_queries, filled_seen, last_poll>>
    /\ UNCHANGED <<twap_vars, grid_vars, place_vars, interrupted, summary_vars>>

OcoNext == MonitorCycle \/ MonitorTimeout \/ ExchangeLegUpdate

(***************************************************************************)
(*                            TWAP scheduler                               *)
(***************************************************************************)
LIMIT_OFFSET_PERMILLE == 1

PriceOutcomes == {"ok", "api", "api1121", "other"}

(***************************************************************************)
(* 0.1 of the asset over 10 minutes in 5 market orders.                    *)
(***************************************************************************)
ScenarioTwapPlan ==
    [symbol_ok |-> TRUE,
     side |-> "BUY",
     total_quantity |-> 100,
     duration_minutes |-> 10,
     num_orders |-> 5,
     use_limit |-> FALSE]

TwapPriceSet == {1000 * TickUnits, 1500 * TickUnits + 1}

TwapPlans ==
    [symbol_ok : BOOLEAN,
     side : {"BUY", "SELL", "HOLD"},
     total_quantity : {0, 1, 3},
     duration_minutes : {0, 1},
     num_orders : 0..MaxSlices,
     use_limit : BOOLEAN]
        \cup {ScenarioTwapPlan}

(***************************************************************************)
(* Validator.validate_side, validate_quantity, validate_price.             *)
(***************************************************************************)
validate_side(side) == side \in {"BUY", "SELL"}

validate_quantity(quantity) == quantity >= MIN_QUANTITY

validate_price(price) == price >= MIN_PRICE

(***************************************************************************)
(* BasicBot.validate_order_params; has_price is FALSE for price = None.    *)
(***************************************************************************)
ValidatesNothing(symbol_ok, side, quantity, has_price, price) == TRUE

validate_order_params(symbol_ok, side, quantity, has_price, price) ==
    /\ symbol_ok
    /\ validate_side(side)
    /\ validate_quantity(quantity)
    /\ (has_price => validate_price(price))

(***************************************************************************)
(* BasicBot.get_current_price: "ok", or the exception it raises.  An API   *)
(* error with code -1121 is turned into a ValueError, any other exception  *)
(* is logged and re-raised.                                                *)
(***************************************************************************)
get_current_price(outcome) ==
    CASE outcome = "ok" -> "ok"
      [] outcome = "api1121" -> "ValueError"
      [] outcome = "api" -> "BinanceAPIException"
      [] OTHER -> "Exception"

(***************************************************************************)
(* The handler around one slice: `except BinanceAPIException: continue`.   *)
(***************************************************************************)
TwapCatchesNothing(exc) == FALSE

TwapCatches(exc) == exc = "BinanceAPIException"

(***************************************************************************)
(* Whether the slice reaches executed_orders.append(order): only when      *)
(* neither the price fetch nor the placement raised.                       *)
(***************************************************************************)
SliceAppendsAlways(price_exc, place_exc) == TRUE

SliceAppends(price_exc, place_exc) == price_exc = "ok" /\ place_exc = "ok"

(***************************************************************************)
(* Whether the slice reaches `if i < num_orders - 1: time.sleep(...)`: the *)
(* handler's `continue` skips it, and the last slice does not sleep.       *)
(***************************************************************************)
SliceSleeps(idx, num_orders, price_exc, place_exc) ==
    /\ price_exc = "ok"
    /\ place_exc = "ok"
    /\ idx < num_orders - 1

(***************************************************************************)
(* The limit price of a slice: the current price moved by the offset, up   *)
(* for BUY and down for SELL, then round(limit_price, 2).                  *)
(***************************************************************************)
LimitPrice(side, cur_price) ==
    IF side = "BUY"
    THEN RoundTick(cur_price * (1000 + LIMIT_OFFSET_PERMILLE), 1000)
    ELSE RoundTick(cur_price * (1000 - LIMIT_OFFSET_PERMILLE), 1000)

(***************************************************************************)
(* order_size = total_quantity / num_orders and interval_seconds =         *)
(* (duration_minutes * 60) / num_orders, computed once before the loop and *)
(* kept as the fractions num / den: the quantity every                     *)
(* futures_create_order call of the loop is given, and the argument of     *)
(* every time.sleep.                                                       *)
(***************************************************************************)
OrderSizeWhole(plan) == [num |-> plan.total_quantity, den |-> 1]

OrderSizeFloored(plan) ==
    [num |-> plan.total_quantity \div plan.num_orders, den |-> 1]

OrderSize(plan) == [num |-> plan.total_quantity, den |-> plan.num_orders]

IntervalSeconds(plan) ==
    [num |-> plan.duration_minutes * 60, den |-> plan.num_orders]

NoArgument == [num |-> 0, den |-> 1]

(***************************************************************************)
(* The order request of slice idx; order_size = total_quantity /           *)
(* num_orders is kept as the fraction qty_num / qty_den.                   *)
(***************************************************************************)
SliceOrder(plan, idx, cur_price) ==
    [slice |-> idx,
     side |-> plan.side,
     type |-> IF plan.use_limit THEN "LIMIT" ELSE "MARKET",
     qty_num |-> plan.total_quantity,
     qty_den |-> plan.num_orders,
     price |-> IF plan.use_limit THEN LimitPrice(plan.side, cur_price) ELSE 0]

TwapInit ==
    /\ twap_pc = "entry"
    /\ twap_plan \in TwapPlans
    /\ i = 0
    /\ executed_orders = <<>>
    /\ twap_exc = "none"
    /\ twap_calls = <<>>
    /\ OcoIdle
    /\ GridIdle
    /\ PlaceIdle
    /\ interrupted = FALSE
    /\ SummaryIdle

(***************************************************************************)
(* execute_twap up to the loop: parameter validation.                      *)
(***************************************************************************)
TwapEntry ==
    /\ twap_pc = "entry"
    /\ IF /\ validate_order_params(twap_plan.symbol_ok, twap_plan.side,
                                   twap_plan.total_quantity, FALSE, 0)
          /\ ~(twap_plan.num_orders < 1)
          /\ ~(twap_plan.duration_minutes < 1)
       THEN twap_pc' = "loop" /\ twap_exc' = "none"
       ELSE twap_pc' = "raised" /\ twap_exc' = "ValueError"
    /\ UNCHANGED <<twap_plan, i, executed_orders, twap_calls>>
    /\ UNCHANGED <<oco_vars, grid_vars, place_vars, interrupted, summary_vars>>

(***************************************************************************)
(* One iteration of `for i in range(num_orders)`: the price fetch, the     *)
(* placement, the append, the handler and the sleep.                       *)
(***************************************************************************)
TwapSlice ==
    /\ twap_pc = "loop"
    /\ i < twap_plan.num_orders
    /\ \E pq \in PriceOutcomes, cur_price \in TwapPriceSet, oq \in PlaceOutcomes :
         LET price_exc == get_current_price(pq)
             place_exc == IF price_exc # "ok" THEN "none"
                          ELSE IF oq = "ok" THEN "ok"
                          ELSE ClientException(oq)
             order == SliceOrder(twap_plan, i, cur_price)
             exc == IF price_exc # "ok" THEN price_exc
                    ELSE IF place_exc # "ok" THEN place_exc
                    ELSE "ok"
             sleeps == SliceSleeps(i, twap_plan.num_orders, price_exc, place_exc)
             log1 == Append(twap_calls, [op |-> "price", slice |-> i,
                                         ok |-> pq = "ok", auth |-> FALSE,
                                         arg |-> NoArgument])
             log2 == IF price_exc = "ok"
                     THEN Append(log1, [op |-> "place", slice |-> i,
                                        ok |-> oq = "ok",
                                        auth |-> oq = "api_auth",
                                        arg |-> OrderSize(twap_plan)])
                     ELSE log1
         IN
         /\ executed_orders' =
              IF SliceAppends(price_exc, place_exc)
              THEN Append(executed_orders, order)
              ELSE executed_orders
         /\ IF exc = "ok" \/ TwapCatches(exc)
            THEN /\ twap_pc' = "loop"
                 /\ i' = i + 1
                 /\ twap_exc' = "none"
                 /\ twap_calls' =
                      IF sleeps
                      THEN Append(log2, [op |-> "sleep", slice |-> i,
                                         ok |-> TRUE, auth |-> FALSE,
                                         arg |-> IntervalSeconds(twap_plan)])
                      ELSE log2
            ELSE /\ twap_pc' = "raised"
                 /\ i' = i
                 /\ twap_exc' = exc
                 /\ twap_calls' = log2
    /\ UNCHANGED <<twap_plan, oco_vars, grid_vars, place_vars, interrupted, summary_vars>>

(***************************************************************************)
(* The loop is exhausted: the summary is logged and executed_orders is     *)
(* returned.                                                               *)
(***************************************************************************)
TwapReturn ==
    /\ twap_pc = "loop"
    /\ i >= twap_plan.num_orders
    /\ twap_pc' = "returned"
    /\ UNCHANGED <<twap_plan, i, executed_orders, twap_exc, twap_calls>>
    /\ UNCHANGED <<oco_vars, grid_vars, place_vars, interrupted, summary_vars>>

TwapNext == TwapEntry \/ TwapSlice \/ TwapReturn



(***************************************************************************)
(*                             TWAP summary                                *)
(* get_twap_summary is a function of the order responses it is given.  An  *)
(* order response carries avgPrice and executedQty as decimal strings      *)
(* ("0.00000" for an order with no fill); a ledger built by hand may hold  *)
(* numbers, or lack the avgPrice key.  Floats are kept as exact fractions  *)
(* num / den.                                                              *)
(***************************************************************************)
SummaryKeys ==
    {"total_orders", "total_quantity", "average_price", "min_price",
     "max_price", "price_range_pct"}

FillPrices == {0, 1000 * TickUnits, 1500 * TickUnits + 1}

AvgPriceValues ==
    {[kind |-> "absent", v |-> 0]}
        \cup [kind : {"str", "num"}, v : FillPrices]

OrderResponses == [avgPrice : AvgPriceValues, executedQty : 0..2]

Ledgers == UNION {[1..n -> OrderResponses] : n \in 0..MaxLedger}

(***************************************************************************)
(* `if order.get('avgPrice')`: a missing key gives None and the number 0   *)
(* is falsy; a non-empty string, "0.00000" included, is truthy.            *)
(***************************************************************************)
HasAvgPrice(order) ==
    \/ order.avgPrice.kind = "str"
    \/ order.avgPrice.kind = "num" /\ order.avgPrice.v # 0

(***************************************************************************)
(* float(order.get('avgPrice', 0)) and float(order.get('executedQty', 0)). *)
(***************************************************************************)
AvgPriceOf(order) == order.avgPrice.v

ExecutedQtyOf(order) == order.executedQty

Ratio(num, den) == [num |-> num, den |-> den]

(***************************************************************************)
(* x / y of two floats, y = yn / yd: ZeroDivisionError when y is 0, kept   *)
(* as the fraction with denominator 0.                                     *)
(***************************************************************************)
Quotient(xn, xd, yn, yd) ==
    IF yn = 0 THEN Ratio(0, 0) ELSE Ratio(xn * yd, xd * yn)

RECURSIVE TotalQty(_)
TotalQty(ords) ==
    IF ords = <<>> THEN 0
    ELSE ExecutedQtyOf(Head(ords)) + TotalQty(Tail(ords))

(***************************************************************************)
(* total_value: sum(avgPrice * executedQty for order in orders             *)
(* if order.get('avgPrice')).                                              *)
(***************************************************************************)
RECURSIVE TotalValueUnweighted(_)
TotalValueUnweighted(ords) ==
    IF ords = <<>> THEN 0
    ELSE (IF HasAvgPrice(Head(ords)) THEN AvgPriceOf(Head(ords)) ELSE 0)
            + TotalValueUnweighted(Tail(ords))

RECURSIVE TotalValue(_)
TotalValue(ords) ==
    IF ords = <<>> THEN 0
    ELSE (IF HasAvgPrice(Head(ords))
          THEN AvgPriceOf(Head(ords)) * ExecutedQtyOf(Head(ords))
          ELSE 0)
            + TotalValue(Tail(ords))

(***************************************************************************)
(* avg_price = total_value / total_qty if total_qty > 0 else 0.            *)
(***************************************************************************)
AveragePrice(ords) ==
    IF TotalQty(ords) > 0
    THEN Quotient(TotalValue(ords), 1, TotalQty(ords), 1)
    ELSE Ratio(0, 1)

(***************************************************************************)
(* prices, min_price and max_price.                                        *)
(***************************************************************************)
SummaryPrices(ords) ==
    {AvgPriceOf(ords[k]) : k \in {j \in 1..Len(ords) : HasAvgPrice(ords[j])}}

MinPrice(ords) ==
    IF SummaryPrices(ords) = {} THEN 0
    ELSE CHOOSE p \in SummaryPrices(ords) : \A q \in SummaryPrices(ords) : p <= q

MaxPrice(ords) ==
    IF SummaryPrices(ords) = {} THEN 0
    ELSE CHOOSE p \in SummaryPrices(ords) : \A q \in SummaryPrices(ords) : p >= q

(***************************************************************************)
(* price_range_pct = ((max_price - min_price) / avg_price * 100)           *)
(* if avg_price > 0 else 0.                                                *)
(***************************************************************************)
PriceRangePct(ords) ==
    LET avg == AveragePrice(ords)
    IN  IF avg.den > 0 /\ avg.num > 0
        THEN Quotient((MaxPrice(ords) - MinPrice(ords)) * 100, 1,
                      avg.num, avg.den)
        ELSE Ratio(0, 1)

(***************************************************************************)
(* The dict get_twap_summary returns, as its set of items: `{}` for an     *)
(* empty list of orders.                                                   *)
(***************************************************************************)
get_twap_summary(ords) ==
    IF ords = <<>> THEN {}
    ELSE {<<"total_orders", Ratio(Len(ords), 1)>>,
          <<"total_quantity", Ratio(TotalQty(ords), 1)>>,
          <<"average_price", AveragePrice(ords)>>,
          <<"min_price", Ratio(MinPrice(ords), 1)>>,
          <<"max_price", Ratio(MaxPrice(ords), 1)>>,
          <<"price_range_pct", PriceRangePct(ords)>>}

SummaryInit ==
    /\ summary_pc = "call"
    /\ summary_orders \in Ledgers
    /\ summary = {}
    /\ OcoIdle
    /\ TwapIdle
    /\ GridIdle
    /\ PlaceIdle
    /\ interrupted = FALSE

(***************************************************************************)
(* One call of get_twap_summary: it returns the dict, or leaves with the   *)
(* ZeroDivisionError of a division.                                        *)
(***************************************************************************)
Summarize ==
    /\ summary_pc = "call"
    /\ IF \E item \in get_twap_summary(summary_orders) : item[2].den = 0
       THEN summary_pc' = "raised" /\ summary' = {}
       ELSE summary_pc' = "returned"
            /\ summary' = get_twap_summary(summary_orders)
    /\ UNCHANGED summary_orders
    /\ UNCHANGED <<oco_vars, twap_vars, grid_vars, place_vars, interrupted>>

SummaryNext == Summarize

(***************************************************************************)
(*                          OCO pair placement                             *)
(***************************************************************************)
OcoPlans ==
    [symbol_ok : BOOLEAN,
     side : {"BUY", "SELL", "HOLD"},
     quantity : {0, 1},
     take_profit_price : {0, TickUnits - 1, 3 * TickUnits},
     stop_loss_price : {0, TickUnits - 1, 2 * TickUnits}]

(***************************************************************************)
(* The two order requests of place_oco_order, and a log entry.             *)
(***************************************************************************)
TakeProfitNotReducing(plan) ==
    [id |-> TP_ORDER_ID, type |-> "LIMIT", side |-> plan.side,
     quantity |-> plan.quantity, price |-> plan.take_profit_price,
     stopPrice |-> 0, reduceOnly |-> FALSE]

TakeProfitOrder(plan) ==
    [id |-> TP_ORDER_ID, type |-> "LIMIT", side |-> plan.side,
     quantity |-> plan.quantity, price |-> plan.take_profit_price,
     stopPrice |-> 0, reduceOnly |-> TRUE]

StopLossOrder(plan) ==
    [id |-> SL_ORDER_ID, type |-> "STOP_MARKET", side |-> plan.side,
     quantity |-> plan.quantity, price |-> 0,
     stopPrice |-> plan.stop_loss_price, reduceOnly |-> TRUE]

NoOrder ==
    [id |-> 0, type |-> "NONE", side |-> "NONE", quantity |-> 0, price |-> 0,
     stopPrice |-> 0, reduceOnly |-> FALSE]

OcoCall(op, order, err) == [op |-> op, order |-> order, err |-> err]

(***************************************************************************)
(* Whether place_oco_order reaches `return tp_order, sl_order`: both       *)
(* handlers re-raise, so only when neither placement raised.               *)
(***************************************************************************)
PlaceReturnsPartialPair(tp_exc, sl_exc) == tp_exc = "ok"

PlaceReturnsPair(tp_exc, sl_exc) == tp_exc = "ok" /\ sl_exc = "ok"

(***************************************************************************)
(* What the two handlers of place_oco_order do to the orders resting on    *)
(* the exchange when a placement raised: they log and re-raise, nothing    *)
(* is cancelled.                                                           *)
(***************************************************************************)
RestingAfterCompensation(resting) == {}

RestingAfterRaise(resting) == resting

OcoPlaceInit ==
    /\ place_pc = "entry"
    /\ place_plan \in OcoPlans
    /\ place_error = "none"
    /\ place_calls = <<>>
    /\ place_result = <<>>
    /\ ex_resting = {}
    /\ OcoIdle
    /\ TwapIdle
    /\ GridIdle
    /\ interrupted = FALSE
    /\ SummaryIdle

(***************************************************************************)
(* place_oco_order up to the first placement: the validation, which is     *)
(* given take_profit_price only, then the price fetch.                     *)
(***************************************************************************)
OcoPlaceEntry ==
    /\ place_pc = "entry"
    /\ IF ~validate_order_params(place_plan.symbol_ok, place_plan.side,
                                 place_plan.quantity, TRUE,
                                 place_plan.take_profit_price)
       THEN /\ place_pc' = "raised"
            /\ place_error' = "ValueError"
            /\ UNCHANGED place_calls
       ELSE \E pq \in PriceOutcomes :
            /\ place_calls' =
                 Append(place_calls,
                        OcoCall("price", NoOrder, get_current_price(pq)))
            /\ IF get_current_price(pq) = "ok"
               THEN place_pc' = "tp" /\ UNCHANGED place_error
               ELSE place_pc' = "raised" /\ place_error' = get_current_price(pq)
    /\ UNCHANGED <<place_plan, place_result, ex_resting>>
    /\ UNCHANGED <<oco_vars, twap_vars, grid_vars, interrupted, summary_vars>>

(***************************************************************************)
(* The take-profit LIMIT order, then time.sleep(0.1).                      *)
(***************************************************************************)
OcoPlaceTakeProfit ==
    /\ place_pc = "tp"
    /\ \E oq \in PlaceOutcomes :
         LET tp_exc == IF oq = "ok" THEN "ok" ELSE ClientException(oq)
             order == TakeProfitOrder(place_plan)
             log1 == Append(place_calls, OcoCall("place", order, tp_exc))
         IN
         IF tp_exc = "ok"
         THEN /\ ex_resting' = ex_resting \cup {order}
              /\ place_calls' = Append(log1, OcoCall("sleep", NoOrder, "ok"))
              /\ place_pc' = "sl"
              /\ UNCHANGED place_error
         ELSE /\ place_calls' = log1
              /\ place_pc' = "raised"
              /\ place_error' = tp_exc
              /\ UNCHANGED ex_resting
    /\ UNCHANGED <<place_plan, place_result>>
    /\ UNCHANGED <<oco_vars, twap_vars, grid_vars, interrupted, summary_vars>>

(***************************************************************************)
(* The stop-loss STOP_MARKET order and the return of the pair.             *)
(***************************************************************************)
OcoPlaceStopLoss ==
    /\ place_pc = "sl"
    /\ \E oq \in PlaceOutcomes :
         LET sl_exc == IF oq = "ok" THEN "ok" ELSE ClientException(oq)
             order == StopLossOrder(place_plan)
         IN
         /\ place_calls' = Append(place_calls, OcoCall("place", order, sl_exc))
         /\ ex_resting' = IF sl_exc = "ok" THEN ex_resting \cup {order}
                          ELSE RestingAfterRaise(ex_resting)
         /\ IF PlaceReturnsPair("ok", sl_exc)
            THEN /\ place_pc' = "returned"
                 /\ place_result' = <<TakeProfitOrder(place_plan), order>>
                 /\ UNCHANGED place_error
            ELSE /\ place_pc' = "raised"
                 /\ place_error' = sl_exc
                 /\ UNCHANGED place_result
    /\ UNCHANGED place_plan
    /\ UNCHANGED <<oco_vars, twap_vars, grid_vars, interrupted, summary_vars>>

OcoPlaceNext == OcoPlaceEntry \/ OcoPlaceTakeProfit \/ OcoPlaceStopLoss

(***************************************************************************)
(*                     Grid reconciliation controller                      *)
(***************************************************************************)
ScenarioPlan ==
    [symbol_ok |-> TRUE,
     lower_price |-> 4400000 * TickUnits,
     upper_price |-> 4600000 * TickUnits,
     grid_levels |-> 5,
     quantity_per_grid |-> 10]

ScenarioPrice == 4500000 * TickUnits

GridPlans ==
    [symbol_ok : BOOLEAN,
     lower_price : {TickUnits, 2 * TickUnits + 1},
     upper_price : {2 * TickUnits + 1, 4 * TickUnits},
     grid_levels : 0..MaxLevels,
     quantity_per_grid : {0, 1}]

(***************************************************************************)
(* The prices the exchange can quote for the symbol of a plan.             *)
(***************************************************************************)
GridPriceSet(plan) ==
    IF plan = ScenarioPlan THEN {ScenarioPrice}
    ELSE {2 * TickUnits, 2 * TickUnits + 1}

(***************************************************************************)
(* Orders the operator may place by hand on the same symbol; their prices  *)
(* need not be whole ticks.                                                *)
(***************************************************************************)
ForeignOrders ==
    {[side |-> "BUY", price |-> 2 * TickUnits + 1, qty |-> 1],
     [side |-> "SELL", price |-> 4 * TickUnits - 1, qty |-> 1]}

NoException == [exc |-> "none", origin |-> "none"]

(***************************************************************************)
(* grid_price = round(lower_price + i * grid_step, 2) with                 *)
(* grid_step = (upper_price - lower_price) / (grid_levels - 1).            *)
(***************************************************************************)
GridPrice(plan, idx) ==
    RoundTick(plan.lower_price * (plan.grid_levels - 1)
                + idx * (plan.upper_price - plan.lower_price),
              plan.grid_levels - 1)

(***************************************************************************)
(* The side of a grid level: BUY below the current price, SELL above it,   *)
(* none at the current price.                                              *)
(***************************************************************************)
LevelSideInclusive(grid_price, price) ==
    IF grid_price <= price THEN "BUY" ELSE "SELL"

LevelSide(grid_price, price) ==
    IF grid_price < price THEN "BUY"
    ELSE IF grid_price > price THEN "SELL"
    ELSE "NONE"

(***************************************************************************)
(* expected_buy_prices / expected_sell_prices of a reconcile cycle.        *)
(***************************************************************************)
ExpectedPrices(plan, price, side) ==
    {GridPrice(plan, idx) : idx \in
        {k \in 0..(plan.grid_levels - 1) :
            LevelSide(GridPrice(plan, k), price) = side}}

(***************************************************************************)
(* open_buy_prices / open_sell_prices: {round(float(o['price']), 2)} over  *)
(* the fetched open orders of one side.                                    *)
(***************************************************************************)
OpenPricesRemembered(orders, side) ==
    {RoundTick(o.price, 1) : o \in {x \in orders : x.side = side}}
      \cup {(IF side = "BUY" THEN buy_orders ELSE sell_orders)[a].price :
               a \in 1..Len(IF side = "BUY" THEN buy_orders ELSE sell_orders)}

OpenPricesUnrounded(orders, side) ==
    {o.price : o \in {x \in orders : x.side = side}}

OpenPrices(orders, side) ==
    {RoundTick(o.price, 1) : o \in {x \in orders : x.side = side}}

(***************************************************************************)
(* missing_buy_prices / missing_sell_prices: expected - open.              *)
(***************************************************************************)
MissingIgnoringOpen(expected, open) == expected

MissingNothing(expected, open) == {}

MissingPrices(expected, open) == expected \ open

(***************************************************************************)
(* The handler around one placement, in create_grid_orders and in the      *)
(* reconcile loop: `except BinanceAPIException` logs and goes on.          *)
(***************************************************************************)
GridCatchesNothing(exc) == FALSE

GridCatches(exc) == exc = "BinanceAPIException"

(***************************************************************************)
(* Whether create_grid_orders reaches buy_orders.append / sell_orders      *)
(* .append after a placement call.                                         *)
(***************************************************************************)
CreateAppendsAlways(place_exc) == TRUE

CreateAppends(place_exc) == place_exc = "ok"

CancelCall(side, price, qty, ok) ==
    [op |-> "cancel", side |-> side, price |-> price, qty |-> qty, ok |-> ok]

PlaceCall(side, price, qty, ok) ==
    [op |-> "place", side |-> side, price |-> price, qty |-> qty, ok |-> ok]

SleepCall(kind) ==
    [op |-> kind, side |-> "NONE", price |-> 0, qty |-> 0, ok |-> TRUE]

(***************************************************************************)
(* The exchange accepts a LIMIT order: it rests in the open-order list.    *)
(***************************************************************************)
NewOrder(id, side, price, qty) ==
    [id |-> id, side |-> side, price |-> price, qty |-> qty]

GridStart(entries, plans) ==
    /\ grid_pc \in entries
    /\ grid_plan \in plans
    /\ max_iterations = MaxIterations
    /\ grid_i = 0
    /\ current_price = 0
    /\ buy_orders = <<>>
    /\ sell_orders = <<>>
    /\ iteration = 0
    /\ open_orders = {}
    /\ missing_buy_prices = {}
    /\ missing_sell_prices = {}
    /\ grid_exc = NoException
    /\ ex_price \in GridPriceSet(grid_plan)
    /\ ex_open = {}
    /\ ex_next_id = 1
    /\ env_steps = 0
    /\ price_fetches = 0
    /\ grid_calls = <<>>
    /\ env_changed = FALSE
    /\ idem_armed = FALSE
    /\ prev_placed = 0
    /\ OcoIdle
    /\ TwapIdle
    /\ PlaceIdle
    /\ interrupted = FALSE
    /\ SummaryIdle

(***************************************************************************)
(* create_grid_orders alone; and create_grid_orders, followed by the       *)
(* monitor as the command line does, or monitor_and_rebalance_grid called  *)
(* directly with a plan of any bounds and level count.                     *)
(***************************************************************************)
GridCreateInit == GridStart({"create"}, GridPlans \cup {ScenarioPlan})

GridInit ==
    \/ GridStart({"create"}, GridPlans)
    \/ GridStart({"loop"}, {p \in GridPlans : validate_quantity(p.quantity_per_grid)})

(***************************************************************************)
(* create_grid_orders up to the loop: validation, then the price fetch,    *)
(* which is outside every handler.                                         *)
(***************************************************************************)
GridCreateEntry ==
    /\ grid_pc = "create"
    /\ IF \/ grid_plan.lower_price >= grid_plan.upper_price
          \/ grid_plan.grid_levels < 2
          \/ ~validate_order_params(grid_plan.symbol_ok, "BUY",
                                    grid_plan.quantity_per_grid, TRUE,
                                    grid_plan.lower_price)
       THEN /\ grid_pc' = "raised"
            /\ grid_exc' = [exc |-> "ValueError", origin |-> "validation"]
            /\ UNCHANGED <<current_price, price_fetches>>
       ELSE \E pq \in PriceOutcomes :
            /\ price_fetches' = price_fetches + 1
            /\ IF get_current_price(pq) = "ok"
               THEN /\ current_price' = ex_price
                    /\ grid_pc' = "levels"
                    /\ grid_exc' = NoException
               ELSE /\ current_price' = current_price
                    /\ grid_pc' = "raised"
                    /\ grid_exc' = [exc |-> get_current_price(pq),
                                    origin |-> "get_current_price"]
    /\ UNCHANGED <<grid_plan, max_iterations, grid_i, buy_orders, sell_orders,
                   iteration, open_orders, missing_buy_prices,
                   missing_sell_prices, ex_price, ex_open, ex_next_id,
                   env_steps, grid_calls, env_changed, idem_armed, prev_placed>>
    /\ UNCHANGED <<oco_vars, twap_vars, place_vars, interrupted, summary_vars>>

(***************************************************************************)
(* One iteration of `for i in range(grid_levels)` of create_grid_orders.   *)
(***************************************************************************)
GridCreateLevel ==
    /\ grid_pc = "levels"
    /\ grid_i < grid_plan.grid_levels
    /\ LET grid_price == GridPrice(grid_plan, grid_i)
           side == LevelSide(grid_price, current_price)
           qty == grid_plan.quantity_per_grid
       IN
       IF side = "NONE"
       THEN /\ grid_i' = grid_i + 1
            /\ UNCHANGED <<grid_pc, buy_orders, sell_orders, grid_exc, ex_open,
                           ex_next_id, grid_calls>>
       ELSE \E oq \in PlaceOutcomes :
            LET place_exc == IF oq = "ok" THEN "ok" ELSE ClientException(oq)
                order == NewOrder(ex_next_id, side, grid_price, qty)
                log1 == Append(grid_calls, PlaceCall(side, grid_price, qty, oq = "ok"))
            IN
            /\ ex_open' = IF oq = "ok" THEN ex_open \cup {order} ELSE ex_open
            /\ ex_next_id' = IF oq = "ok" THEN ex_next_id + 1 ELSE ex_next_id
            /\ buy_orders' = IF side = "BUY" /\ CreateAppends(place_exc)
                             THEN Append(buy_orders, order) ELSE buy_orders
            /\ sell_orders' = IF side = "SELL" /\ CreateAppends(place_exc)
                              THEN Append(sell_orders, order) ELSE sell_orders
            /\ grid_calls' = IF oq = "ok" THEN Append(log1, SleepCall("rate_sleep"))
                             ELSE log1
            /\ IF place_exc = "ok" \/ GridCatches(place_exc)
               THEN /\ grid_i' = grid_i + 1
                    /\ UNCHANGED <<grid_pc, grid_exc>>
               ELSE /\ grid_i' = grid_i
                    /\ grid_pc' = "raised"
                    /\ grid_exc' = [exc |-> place_exc, origin |-> "create_order"]
    /\ UNCHANGED <<grid_plan, max_iterations, current_price, iteration,
                   open_orders, missing_buy_prices, missing_sell_prices,
                   ex_price, env_steps, price_fetches, env_changed, idem_armed,
                   prev_placed>>
    /\ UNCHANGED <<oco_vars, twap_vars, place_vars, interrupted, summary_vars>>

(***************************************************************************)
(* create_grid_orders returns (buy_orders, sell_orders).                   *)
(***************************************************************************)
GridCreateReturn ==
    /\ grid_pc = "levels"
    /\ grid_i >= grid_plan.grid_levels
    /\ grid_pc' = "created"
    /\ UNCHANGED <<grid_plan, max_iterations, grid_i, current_price, buy_orders,
                   sell_orders, iteration, open_orders, missing_buy_prices,
                   missing_sell_prices, grid_exc, ex_price, ex_open, ex_next_id,
                   env_steps, price_fetches, grid_calls, env_changed,
                   idem_armed, prev_placed>>
    /\ UNCHANGED <<oco_vars, twap_vars, place_vars, interrupted, summary_vars>>

(***************************************************************************)
(* The command line's --monitor: monitor_and_rebalance_grid is called      *)
(* with the plan create_grid_orders was called with.                       *)
(***************************************************************************)
GridStartMonitor ==
    /\ grid_pc = "created"
    /\ grid_pc' = "loop"
    /\ iteration' = 0
    /\ price_fetches' = 0
    /\ grid_calls' = <<>>
    /\ UNCHANGED <<grid_plan, max_iterations, grid_i, current_price, buy_orders,
                   sell_orders, open_orders, missing_buy_prices,
                   missing_sell_prices, grid_exc, ex_price, ex_open, ex_next_id,
                   env_steps, env_changed, idem_armed, prev_placed>>
    /\ UNCHANGED <<oco_vars, twap_vars, place_vars, interrupted, summary_vars>>

PlaceCount(calls) ==
    Cardinality({a \in 1..Len(calls) : calls[a].op = "place"})

AllPlacementsOk(calls) ==
    \A a \in 1..Len(calls) : calls[a].op = "place" => calls[a].ok

(***************************************************************************)
(* The head of one cycle of monitor_and_rebalance_grid: iteration += 1,    *)
(* the price fetch, the open-orders fetch, and the expected and missing    *)
(* sets.  No handler inside the loop encloses the two fetches nor the      *)
(* division by grid_levels - 1.                                            *)
(***************************************************************************)
GridCycleStart ==
    /\ grid_pc = "loop"
    /\ iteration < max_iterations
    /\ iteration' = iteration + 1
    /\ \E pq \in PriceOutcomes, oo \in Outcomes :
       LET price_exc == IF grid_plan.symbol_ok THEN get_current_price(pq)
                        ELSE "ValueError"
           fetched == price_exc = "ok" /\ oo = "ok"
           exc == IF price_exc # "ok"
                     THEN [exc |-> price_exc, origin |-> "get_current_price"]
                  ELSE IF oo # "ok"
                     THEN [exc |-> ClientException(oo), origin |-> "get_open_orders"]
                  ELSE IF grid_plan.grid_levels = 1
                     THEN [exc |-> "ZeroDivisionError", origin |-> "grid_step"]
                  ELSE NoException
       IN
       /\ price_fetches' = IF grid_plan.symbol_ok THEN price_fetches + 1
                           ELSE price_fetches
       /\ current_price' = IF price_exc = "ok" THEN ex_price ELSE current_price
       /\ open_orders' = IF fetched THEN ex_open ELSE open_orders
       /\ grid_exc' = exc
       /\ IF exc = NoException
          THEN /\ grid_pc' = "placing"
               /\ missing_buy_prices' =
                    MissingPrices(ExpectedPrices(grid_plan, ex_price, "BUY"),
                                  OpenPrices(ex_open, "BUY"))
               /\ missing_sell_prices' =
                    MissingPrices(ExpectedPrices(grid_plan, ex_price, "SELL"),
                                  OpenPrices(ex_open, "SELL"))
               /\ idem_armed' = (/\ iteration >= 1
                                 /\ AllPlacementsOk(grid_calls)
                                 /\ ~env_changed)
               /\ prev_placed' = PlaceCount(grid_calls)
               /\ env_changed' = FALSE
               /\ grid_calls' = <<>>
          ELSE /\ grid_pc' = "raised"
               /\ UNCHANGED <<missing_buy_prices, missing_sell_prices,
                              idem_armed, prev_placed, env_changed, grid_calls>>
    /\ UNCHANGED <<grid_plan, max_iterations, grid_i, buy_orders, sell_orders,
                   ex_price, ex_open, ex_next_id, env_steps>>
    /\ UNCHANGED <<oco_vars, twap_vars, place_vars, interrupted, summary_vars>>

(***************************************************************************)
(* One replacement placement of a cycle, for a missing price of `side`;    *)
(* a Python set is iterated in no particular order.                        *)
(***************************************************************************)
Replace(side, price, oq) ==
    LET place_exc == IF oq = "ok" THEN "ok" ELSE ClientException(oq)
        qty == grid_plan.quantity_per_grid
        log1 == Append(grid_calls, PlaceCall(side, price, qty, oq = "ok"))
    IN
    /\ ex_open' = IF oq = "ok"
                  THEN ex_open \cup {NewOrder(ex_next_id, side, price, qty)}
                  ELSE ex_open
    /\ ex_next_id' = IF oq = "ok" THEN ex_next_id + 1 ELSE ex_next_id
    /\ grid_calls' = IF oq = "ok" THEN Append(log1, SleepCall("rate_sleep"))
                     ELSE log1
    /\ IF place_exc = "ok" \/ GridCatches(place_exc)
       THEN /\ IF side = "BUY"
               THEN /\ missing_buy_prices' = missing_buy_prices \ {price}
                    /\ UNCHANGED missing_sell_prices
               ELSE /\ missing_sell_prices' = missing_sell_prices \ {price}
                    /\ UNCHANGED missing_buy_prices
            /\ UNCHANGED <<grid_pc, grid_exc>>
       ELSE /\ grid_pc' = "raised"
            /\ grid_exc' = [exc |-> place_exc, origin |-> "create_order"]
            /\ UNCHANGED <<missing_buy_prices, missing_sell_prices>>
    /\ UNCHANGED <<grid_plan, max_iterations, grid_i, current_price, buy_orders,
                   sell_orders, iteration, open_orders, ex_price, env_steps,
                   price_fetches, env_changed, idem_armed, prev_placed>>
    /\ UNCHANGED <<oco_vars, twap_vars, place_vars, interrupted, summary_vars>>

GridReplaceBuy ==
    /\ grid_pc = "placing"
    /\ \E price \in missing_buy_prices, oq \in PlaceOutcomes :
         Replace("BUY", price, oq)

GridReplaceSell ==
    /\ grid_pc = "placing"
    /\ missing_buy_prices = {}
    /\ \E price \in missing_sell_prices, oq \in PlaceOutcomes :
         Replace("SELL", price, oq)

(***************************************************************************)
(* The end of a cycle: time.sleep(check_interval).                         *)
(***************************************************************************)
GridCycleSleep ==
    /\ grid_pc = "placing"
    /\ missing_buy_prices = {}
    /\ missing_sell_prices = {}
    /\ grid_pc' = "loop"
    /\ grid_calls' = Append(grid_calls, SleepCall("interval_sleep"))
    /\ UNCHANGED <<grid_plan, max_iterations, grid_i, current_price, buy_orders,
                   sell_orders, iteration, open_orders, missing_buy_prices,
                   missing_sell_prices, grid_exc, ex_price, ex_open, ex_next_id,
                   env_steps, price_fetches, env_changed, idem_armed,
                   prev_placed>>
    /\ UNCHANGED <<oco_vars, twap_vars, place_vars, interrupted, summary_vars>>

(***************************************************************************)
(* The loop condition fails: monitor_and_rebalance_grid returns.           *)
(***************************************************************************)
GridMonitorReturn ==
    /\ grid_pc = "loop"
    /\ iteration >= max_iterations
    /\ grid_pc' = "finished"
    /\ UNCHANGED <<grid_plan, max_iterations, grid_i, current_price, buy_orders,
                   sell_orders, iteration, open_orders, missing_buy_prices,
                   missing_sell_prices, grid_exc, ex_price, ex_open, ex_next_id,
                   env_steps, price_fetches, grid_calls, env_changed,
                   idem_armed, prev_placed>>
    /\ UNCHANGED <<oco_vars, twap_vars, place_vars, interrupted, summary_vars>>

(***************************************************************************)
(* The exchange, while the monitor sleeps between two cycles: the price    *)
(* moves, an open order fills or is cancelled, the operator places an      *)
(* order by hand.  A cycle works on the price and the list it fetched, so  *)
(* a change during a cycle shows at the next fetch like one during the     *)
(* sleep, and a change after the last cycle is never fetched.              *)
(***************************************************************************)
ExchangeFrame ==
    /\ grid_pc = "loop"
    /\ iteration < max_iterations
    /\ env_steps < MaxEnvSteps
    /\ env_steps' = env_steps + 1
    /\ UNCHANGED <<grid_pc, grid_plan, max_iterations, grid_i, current_price,
                   buy_orders, sell_orders, iteration, open_orders,
                   missing_buy_prices, missing_sell_prices, grid_exc,
                   price_fetches, grid_calls, idem_armed, prev_placed>>
    /\ UNCHANGED <<oco_vars, twap_vars, place_vars, interrupted, summary_vars>>

ExchangePriceMove ==
    /\ ExchangeFrame
    /\ ex_price' \in GridPriceSet(grid_plan) \ {ex_price}
    /\ env_changed' = TRUE
    /\ UNCHANGED <<ex_open, ex_next_id>>

ExchangeOrderGone ==
    /\ ExchangeFrame
    /\ \E o \in ex_open : ex_open' = ex_open \ {o}
    /\ env_changed' = TRUE
    /\ UNCHANGED <<ex_price, ex_next_id>>

ExchangeForeignOrder ==
    /\ ExchangeFrame
    /\ \E f \in ForeignOrders :
         ex_open' = ex_open \cup {NewOrder(ex_next_id, f.side, f.price, f.qty)}
    /\ ex_next_id' = ex_next_id + 1
    /\ UNCHANGED <<ex_price, env_changed>>

(***************************************************************************)
(* monitor_and_rebalance_grid called on its own.                           *)
(***************************************************************************)
GridMonitorInit ==
    GridStart({"loop"}, {p \in GridPlans : validate_quantity(p.quantity_per_grid)})

(***************************************************************************)
(* The steps of the monitor itself: one thread of control, every call      *)
(* blocking, so the step that is enabled is eventually taken.              *)
(***************************************************************************)
GridMonitorStep ==
    \/ GridCycleStart
    \/ GridReplaceBuy
    \/ GridReplaceSell
    \/ GridCycleSleep
    \/ GridMonitorReturn

GridMonitorNext ==
    \/ GridMonitorStep
    \/ ExchangePriceMove
    \/ ExchangeOrderGone
    \/ ExchangeForeignOrder

GridCreateNext ==
    \/ GridCreateEntry
    \/ GridCreateLevel
    \/ GridCreateReturn

GridNext ==
    \/ GridCreateEntry
    \/ GridCreateLevel
    \/ GridCreateReturn
    \/ GridStartMonitor
    \/ GridCycleStart
    \/ GridReplaceBuy
    \/ GridReplaceSell
    \/ GridCycleSleep
    \/ GridMonitorReturn
    \/ ExchangePriceMove
    \/ ExchangeOrderGone
    \/ ExchangeForeignOrder

(***************************************************************************)
(*                   Entry points called with any plan                     *)
(* create_grid_orders and execute_twap, each called once with arguments    *)
(* of any value; the lower price of a grid plan may also lie under         *)
(* Config.MIN_PRICE, and its bounds may lie one tick apart (100.00 to      *)
(* 100.01 in 4 levels).                                                    *)
(***************************************************************************)
NarrowPlan ==
    [symbol_ok |-> TRUE,
     lower_price |-> 10000 * TickUnits,
     upper_price |-> 10001 * TickUnits,
     grid_levels |-> 4,
     quantity_per_grid |-> 1]

GridCreatePlans ==
    GridPlans
        \cup {[p EXCEPT !.lower_price = MIN_PRICE - 1] : p \in GridPlans}
        \cup {NarrowPlan}

EntryInit == GridStart({"create"}, GridCreatePlans) \/ TwapInit

EntryNext == GridCreateNext \/ TwapNext

(***************************************************************************)
(*                         Operator interrupt                              *)
(* Ctrl+C raises KeyboardInterrupt in the running call.  It is not an      *)
(* Exception, so neither `except BinanceAPIException` nor `except          *)
(* Exception` handles it; the handler of monitor_and_rebalance_grid logs   *)
(* and re-raises.  The loop is left and nothing else runs.                 *)
(***************************************************************************)
InterruptSwallowed(pc) == pc

AfterInterrupt(pc) == "interrupted"

(***************************************************************************)
(* During the sleep between two polls of monitor_and_cancel_oco.           *)
(***************************************************************************)
OcoInterrupt ==
    /\ oco_pc = "monitor"
    /\ checks >= 1
    /\ ~interrupted
    /\ interrupted' = TRUE
    /\ oco_pc' = AfterInterrupt(oco_pc)
    /\ UNCHANGED <<max_checks, checks, tp_status, sl_status, oco_result, ex_tp,
                   ex_sl, cancel_calls, status_queries, filled_seen, last_poll>>
    /\ UNCHANGED <<twap_vars, grid_vars, place_vars, summary_vars>>

(***************************************************************************)
(* Between two slices of execute_twap (during the sleep when there is one).*)
(***************************************************************************)
TwapInterrupt ==
    /\ twap_pc = "loop"
    /\ 0 < i
    /\ i < twap_plan.num_orders
    /\ ~interrupted
    /\ interrupted' = TRUE
    /\ twap_pc' = AfterInterrupt(twap_pc)
    /\ UNCHANGED <<twap_plan, i, executed_orders, twap_exc, twap_calls>>
    /\ UNCHANGED <<oco_vars, grid_vars, place_vars, summary_vars>>

(***************************************************************************)
(* During time.sleep(check_interval) at the end of a cycle of              *)
(* monitor_and_rebalance_grid, or during the time.sleep(0.1) that follows  *)
(* a placement.                                                            *)
(***************************************************************************)
GridInterrupt ==
    /\ \/ grid_pc = "loop" /\ iteration >= 1
       \/ /\ grid_pc = "placing"
          /\ grid_calls # <<>>
          /\ grid_calls[Len(grid_calls)].op = "rate_sleep"
    /\ ~interrupted
    /\ interrupted' = TRUE
    /\ grid_pc' = AfterInterrupt(grid_pc)
    /\ UNCHANGED <<grid_plan, max_iterations, grid_i, current_price, buy_orders,
                   sell_orders, iteration, open_orders, missing_buy_prices,
                   missing_sell_prices, grid_exc, ex_price, ex_open, ex_next_id,
                   env_steps, price_fetches, grid_calls, env_changed,
                   idem_armed, prev_placed>>
    /\ UNCHANGED <<oco_vars, twap_vars, place_vars, summary_vars>>

(***************************************************************************)
(* Any one of the three loops, with the operator able to interrupt it.     *)
(***************************************************************************)
InterruptInit == OcoInit \/ TwapInit \/ GridMonitorInit

InterruptNext ==
    \/ OcoNext
    \/ TwapNext
    \/ GridMonitorNext
    \/ OcoInterrupt
    \/ TwapInterrupt
    \/ GridInterrupt

(***************************************************************************)
(*                            Specifications                               *)
(***************************************************************************)
SpecOCO == OcoInit /\ [][OcoNext]_vars

SpecOCOPlace == OcoPlaceInit /\ [][OcoPlaceNext]_vars

SpecTWAP == TwapInit /\ [][TwapNext]_vars

SpecGridCreate == GridCreateInit /\ [][GridCreateNext]_vars

SpecGrid == GridInit /\ [][GridNext]_vars

SpecInterrupt == InterruptInit /\ [][InterruptNext]_vars

SpecEntry == EntryInit /\ [][EntryNext]_vars

SpecSummary == SummaryInit /\ [][SummaryNext]_vars

SpecGridLive ==
    GridMonitorInit /\ [][GridMonitorNext]_vars /\ WF_vars(GridMonitorStep)

(***************************************************************************)
(*                               Claims                                    *)
(***************************************************************************)

(***************************************************************************)
(* C1.  OCO monitor: once a poll has observed a leg FILLED, the monitor    *)
(* has issued exactly one cancel call in total, whatever the status        *)
(* queries and the cancel call answered; no later poll issues a second     *)
(* cancel.                                                                 *)
(***************************************************************************)
C1_ExactlyOneCancel ==
    filled_seen # "none" => Len(cancel_calls) = 1

(***************************************************************************)
(* C2.  OCO monitor: once a poll has observed the take-profit leg FILLED   *)
(* (resp. the stop-loss leg, take-profit not FILLED) the monitor has       *)
(* stopped in that cycle with result TP (resp. SL); it does not go on      *)
(* polling and never ends with the timeout / both-terminated result.       *)
(***************************************************************************)
C2_StopsWhenFilledSeen ==
    filled_seen # "none" => oco_pc = "returned" /\ oco_result = filled_seen

ConfirmedPlacements ==
    SelectSeq(twap_calls, LAMBDA c : c.op = "place" /\ c.ok)

CallsOf(op, slice) ==
    {a \in 1..Len(twap_calls) : twap_calls[a].op = op /\ twap_calls[a].slice = slice}

C7_EverySliceAttempted ==
    /\ twap_pc = "raised" => twap_exc \in {"ValueError", "Exception"}
    /\ twap_pc \in {"loop", "returned"} =>
         \A k \in 0..(i - 1) :
            /\ Cardinality(CallsOf("price", k)) = 1
            /\ \A a \in CallsOf("price", k) :
                 twap_calls[a].ok =>
                    /\ CallsOf("place", k) = {a + 1}
    /\ twap_pc = "returned" => i = twap_plan.num_orders
    /\ twap_pc = "loop" => ENABLED TwapNext

C7_Witness ==
    /\ twap_pc = "returned"
    /\ twap_plan.num_orders = 3
    /\ \E a \in CallsOf("place", 0) : ~twap_calls[a].ok
    /\ CallsOf("place", 1) # {}
    /\ CallsOf("place", 2) # {}

(***************************************************************************)
(* C8.  TWAP: every placement attempt of a slice other than the last is    *)
(* followed by one suspension before the next slice, whether it succeeded  *)
(* or failed, so a run whose price fetches all succeed performs exactly    *)
(* sliceCount - 1 suspensions.                                             *)
(***************************************************************************)
C8_OneSuspensionBetweenSlices ==
    /\ twap_pc \in {"loop", "returned"} =>
         \A a \in 1..Len(twap_calls) :
            (twap_calls[a].op = "place" /\ twap_calls[a].slice < twap_plan.num_orders - 1)
               => (a + 1 <= Len(twap_calls) /\ twap_calls[a + 1].op = "sleep")
    /\ (twap_pc = "returned" /\ \A a \in 1..Len(twap_calls) :
                                   twap_calls[a].op = "price" => twap_calls[a].ok)
         => Cardinality({a \in 1..Len(twap_calls) : twap_calls[a].op = "sleep"})
              = twap_plan.num_orders - 1

(***************************************************************************)
(* The placement calls in the log of create, or of the current cycle.      *)
(***************************************************************************)
PlaceIndexes(side) ==
    {a \in 1..Len(grid_calls) :
        grid_calls[a].op = "place" /\ grid_calls[a].side = side}

PlacedPrices(side) == {grid_calls[a].price : a \in PlaceIndexes(side)}

LevelIndexes == 0..(grid_plan.grid_levels - 1)

(***************************************************************************)
(* C3.  Grid reconcile: in a cycle whose two fetches succeeded, every      *)
(* placement call is for a grid level strictly below (BUY) or strictly     *)
(* above (SELL) the fetched price that has no open order of that side at   *)
(* that rounded price in the fetched list, with quantityPerUnit, and no    *)
(* (price, side) is placed twice; when the cycle reaches its sleep the     *)
(* placement calls are exactly that missing set.                           *)
(***************************************************************************)
HasOpenAt(side, price) ==
    \E o \in open_orders : o.side = side /\ RoundTick(o.price, 1) = price

MissingLevels(side) ==
    {p \in {GridPrice(grid_plan, k) : k \in LevelIndexes} :
        /\ IF side = "BUY" THEN p < current_price ELSE p > current_price
        /\ ~HasOpenAt(side, p)}

InCycle == grid_pc \in {"placing", "loop"} /\ iteration >= 1

CycleComplete ==
    /\ grid_pc = "loop"
    /\ iteration >= 1
    /\ Len(grid_calls) >= 1
    /\ grid_calls[Len(grid_calls)].op = "interval_sleep"

C3_PlacementsAreMissingSet ==
    InCycle =>
      \A side \in {"BUY", "SELL"} :
        /\ PlacedPrices(side) \subseteq MissingLevels(side)
        /\ \A a \in PlaceIndexes(side) :
              /\ grid_calls[a].qty = grid_plan.quantity_per_grid
              /\ ~HasOpenAt(side, grid_calls[a].price)
        /\ Cardinality(PlaceIndexes(side)) = Cardinality(PlacedPrices(side))
        /\ CycleComplete => PlacedPrices(side) = MissingLevels(side)

C3_Witness ==
    /\ CycleComplete
    /\ PlacedPrices("SELL") # {}
    /\ \E o \in open_orders :
         /\ o.side = "BUY"
         /\ o.price # RoundTick(o.price, 1)
         /\ RoundTick(o.price, 1) \in {GridPrice(grid_plan, k) : k \in LevelIndexes}
         /\ RoundTick(o.price, 1) < current_price
         /\ RoundTick(o.price, 1) \notin PlacedPrices("BUY")

(***************************************************************************)
(* C4.  Grid reconcile is idempotent: when the cycle before completed      *)
(* with every placement confirmed, and since its fetch the price has not   *)
(* moved and no order has left the open-order list, the current cycle      *)
(* issues no placement call.                                               *)
(***************************************************************************)
C4_Idempotent ==
    (InCycle /\ idem_armed) => PlaceCount(grid_calls) = 0

C4_Witness ==
    /\ CycleComplete
    /\ idem_armed
    /\ prev_placed >= 2
    /\ iteration = 2

(***************************************************************************)
(* C5.  Grid reconcile, called with a valid plan: a failure of the price   *)
(* fetch or of the open-orders fetch that the gateway reports              *)
(* (BinanceAPIException) never terminates the reconcile loop.              *)
(***************************************************************************)
GridPlanValid ==
    /\ grid_plan.symbol_ok
    /\ grid_plan.lower_price < grid_plan.upper_price
    /\ grid_plan.grid_levels >= 2
    /\ grid_plan.quantity_per_grid >= MIN_QUANTITY

C5_FetchFailureIsCycleLocal ==
    (/\ GridPlanValid
     /\ iteration >= 1
     /\ grid_exc.origin \in {"get_current_price", "get_open_orders"}
     /\ grid_exc.exc = "BinanceAPIException")
        => grid_pc # "raised"

(***************************************************************************)
(* C9.  Grid createGrid: the price is fetched exactly once; when create    *)
(* returns, each grid level has had one BUY submitted iff it is below the  *)
(* price, one SELL iff it is above, and nothing if it equals the price.    *)
(***************************************************************************)
LevelsOn(side) ==
    {k \in LevelIndexes :
        IF side = "BUY" THEN GridPrice(grid_plan, k) < current_price
        ELSE GridPrice(grid_plan, k) > current_price}

C9_CreateSubmitsBySide ==
    /\ grid_pc \in {"levels", "created"} => price_fetches = 1
    /\ grid_pc = "created" =>
         /\ \A side \in {"BUY", "SELL"} :
              /\ PlacedPrices(side) = {GridPrice(grid_plan, k) : k \in LevelsOn(side)}
              /\ Cardinality(PlaceIndexes(side)) = Cardinality(LevelsOn(side))
              /\ \A a \in PlaceIndexes(side) :
                   grid_calls[a].qty = grid_plan.quantity_per_grid
         /\ \A k \in LevelIndexes :
              GridPrice(grid_plan, k) = current_price =>
                 GridPrice(grid_plan, k) \notin PlacedPrices("BUY") \cup PlacedPrices("SELL")

C9_Witness ==
    /\ grid_pc = "created"
    /\ grid_plan = ScenarioPlan
    /\ current_price = 4500000 * TickUnits
    /\ PlacedPrices("BUY") = {4400000 * TickUnits, 4450000 * TickUnits}
    /\ PlacedPrices("SELL") = {4550000 * TickUnits, 4600000 * TickUnits}
    /\ price_fetches = 1

(***************************************************************************)
(* C10.  Grid createGrid: a placement the gateway rejects does not stop    *)
(* create; when it returns, every level not equal to the price has had     *)
(* its placement attempted, and buy_orders and sell_orders are exactly     *)
(* the orders the gateway confirmed, as many as the successful BUY and     *)
(* SELL placements.                                                        *)
(***************************************************************************)
SeqRange(seq) == {seq[k] : k \in 1..Len(seq)}

ConfirmedCount(side) ==
    Cardinality({a \in PlaceIndexes(side) : grid_calls[a].ok})

C10_CreateReturnsConfirmedOrders ==
    /\ (grid_pc = "raised" /\ grid_exc.origin = "create_order")
          => grid_exc.exc # "BinanceAPIException"
    /\ grid_pc = "created" =>
         /\ Cardinality(PlaceIndexes("BUY")) + Cardinality(PlaceIndexes("SELL"))
              = Cardinality({k \in LevelIndexes : GridPrice(grid_plan, k) # current_price})
         /\ Len(buy_orders) = ConfirmedCount("BUY")
         /\ Len(sell_orders) = ConfirmedCount("SELL")
         /\ SeqRange(buy_orders) = {o \in ex_open : o.side = "BUY"}
         /\ SeqRange(sell_orders) = {o \in ex_open : o.side = "SELL"}
         /\ Cardinality(SeqRange(buy_orders)) = Len(buy_orders)
         /\ Cardinality(SeqRange(sell_orders)) = Len(sell_orders)

C10_Witness ==
    /\ grid_pc = "created"
    /\ grid_plan.grid_levels = 3
    /\ Len(buy_orders) = 1
    /\ Len(sell_orders) = 0
    /\ Cardinality(PlaceIndexes("BUY")) = 2
    /\ Cardinality(PlaceIndexes("SELL")) = 1

(***************************************************************************)
(* C11.  Grid reconcile: a replacement placement the gateway rejects       *)
(* (BinanceAPIException) never terminates the loop: reconcile does not     *)
(* raise because of it, every level missing at the cycle's fetch is either *)
(* already attempted in this cycle or still to be attempted, the loop      *)
(* returns only after max_iterations cycles, and a placement that failed   *)
(* in the cycle before is in the missing set of the next cycle when the    *)
(* level is still missing at the next fetch.                               *)
(***************************************************************************)
MissingOf(side) ==
    IF side = "BUY" THEN missing_buy_prices ELSE missing_sell_prices

FailedPlacements(side) ==
    {grid_calls[a].price : a \in {b \in PlaceIndexes(side) : ~grid_calls[b].ok}}

C11_State ==
    /\ (grid_pc = "raised" /\ iteration >= 1 /\ grid_exc.origin = "create_order")
          => grid_exc.exc # "BinanceAPIException"
    /\ (grid_pc = "placing" /\ iteration >= 1) =>
          /\ \A side \in {"BUY", "SELL"} :
                MissingLevels(side) = PlacedPrices(side) \cup MissingOf(side)
          /\ ENABLED (GridReplaceBuy \/ GridReplaceSell \/ GridCycleSleep)
    /\ (grid_pc = "loop" /\ iteration < max_iterations) => ENABLED GridCycleStart
    /\ grid_pc = "finished" => iteration = max_iterations

C11_RetryStep ==
    (grid_pc = "loop" /\ grid_pc' = "placing" /\ iteration >= 1) =>
        \A side \in {"BUY", "SELL"} :
            \A price \in FailedPlacements(side) :
                price \in MissingLevels(side)' => price \in MissingOf(side)'

C11_FailedPlacementIsLocal == []C11_State /\ [][C11_RetryStep]_vars

C11_Witness ==
    /\ grid_pc = "finished"
    /\ iteration = max_iterations
    /\ max_iterations >= 2
    /\ env_steps = 0
    /\ ex_next_id = 1
    /\ PlaceCount(grid_calls) >= 2
    /\ FailedPlacements("BUY") # {}
    /\ FailedPlacements("SELL") # {}

(***************************************************************************)
(* C12.  Grid reconcile (liveness): the monitor eventually raises or       *)
(* returns, and it returns only after max_iterations cycles, so every      *)
(* cycle that remains is run unless the monitor raises; and a cycle that   *)
(* completes has                                                           *)
(* issued one placement for every grid level that is on the BUY or SELL    *)
(* side of the fetched price and has no open order of that side in the     *)
(* fetched list (an order that left the exchange is replaced); when every  *)
(* placement of the cycle succeeded, every desired level has an open       *)
(* order on the exchange again.                                            *)
(***************************************************************************)
HasExchangeOrderAt(side, price) ==
    \E o \in ex_open : o.side = side /\ RoundTick(o.price, 1) = price

DesiredLevelsOpen ==
    \A k \in LevelIndexes :
        LET p == GridPrice(grid_plan, k) IN
        /\ p < ex_price => HasExchangeOrderAt("BUY", p)
        /\ p > ex_price => HasExchangeOrderAt("SELL", p)

CycleReplaced ==
    /\ CycleComplete
    /\ \A side \in {"BUY", "SELL"} : PlacedPrices(side) = MissingLevels(side)
    /\ AllPlacementsOk(grid_calls) => DesiredLevelsOpen

C12_CycleStep ==
    /\ (grid_pc = "placing" /\ grid_pc' = "loop") => CycleReplaced'
    /\ grid_pc' = "finished" => iteration' = max_iterations'

C12_MissingLevelIsReplaced ==
    /\ [][C12_CycleStep]_vars
    /\ <>(grid_pc \in {"finished", "raised"})

C12_Witness ==
    /\ CycleReplaced
    /\ iteration = 2
    /\ prev_placed >= 2
    /\ Cardinality(ex_open) = ex_next_id - 2
    /\ PlaceCount(grid_calls) = 1
    /\ AllPlacementsOk(grid_calls)
    /\ DesiredLevelsOpen

(***************************************************************************)
(* C13.  OCO monitor: every cancel call targets the sibling of the leg the *)
(* poll that issued it read FILLED: the stop-loss id (2) when it read the  *)
(* take-profit FILLED, both legs FILLED included, and the take-profit id   *)
(* (1) when it read only the stop-loss FILLED; a poll that read neither    *)
(* leg FILLED cancels nothing; result TP comes with a cancel against the   *)
(* stop-loss id and result SL with a cancel against the take-profit id.    *)
(***************************************************************************)
LastCancel == cancel_calls[Len(cancel_calls)]

C13_CancelTargetsSibling ==
    /\ cancel_calls # <<>> =>
          /\ tp_status = "FILLED" \/ sl_status = "FILLED"
          /\ tp_status = "FILLED" => LastCancel = 2
          /\ tp_status # "FILLED" => LastCancel = 1
    /\ (cancel_calls = <<>> /\ oco_pc # "raised") =>
          (tp_status # "FILLED" /\ sl_status # "FILLED")
    /\ oco_result = "TP" =>
          (tp_status = "FILLED" /\ cancel_calls # <<>> /\ LastCancel = 2)
    /\ oco_result = "SL" =>
          /\ sl_status = "FILLED" /\ tp_status # "FILLED"
          /\ cancel_calls # <<>> /\ LastCancel = 1

C13_Witness ==
    /\ oco_result = "SL"
    /\ cancel_calls = <<1>>
    /\ ex_tp = "CANCELED"
    /\ ex_sl = "FILLED"
    /\ checks >= 1

(***************************************************************************)
(* C14.  OCO monitor: once a poll has read both legs CANCELED or EXPIRED   *)
(* the monitor has stopped in that cycle with result None: it has issued   *)
(* no cancel call, the status queries made are those of the polls up to    *)
(* that one, and no further step of the monitor is possible.               *)
(***************************************************************************)
BothTerminatedSeen ==
    /\ tp_status \in {"CANCELED", "EXPIRED"}
    /\ sl_status \in {"CANCELED", "EXPIRED"}

C14_BothTerminatedStops ==
    BothTerminatedSeen =>
        /\ oco_pc = "returned"
        /\ oco_result = "None"
        /\ cancel_calls = <<>>
        /\ checks < max_checks
        /\ status_queries >= 2
        /\ status_queries <= 2 * (checks + 1)
        /\ ~ENABLED OcoNext

C14_Witness ==
    /\ oco_pc = "returned"
    /\ tp_status = "CANCELED"
    /\ sl_status = "EXPIRED"
    /\ checks = 1
    /\ status_queries = 4
    /\ cancel_calls = <<>>

(***************************************************************************)
(* C15.  OCO monitor terminates: whatever the gateway answers, it runs at  *)
(* most max_checks polls (a poll that returns or raises is one of the      *)
(* first max_checks, every other poll is counted in checks, and checks     *)
(* never exceeds max_checks), a step is always possible until it stops,    *)
(* and when it returns without any poll having read a FILLED leg or both   *)
(* legs CANCELED/EXPIRED it has run exactly max_checks polls, returns None *)
(* (the timeout result) and has issued no cancel call.                     *)
(***************************************************************************)
NothingDecisiveSeen == filled_seen = "none" /\ ~BothTerminatedSeen

C15_MonitorTerminates ==
    /\ checks <= max_checks
    /\ status_queries <= 2 * max_checks
    /\ Len(cancel_calls) <= max_checks
    /\ (oco_pc = "raised" \/ oco_result \in {"TP", "SL"} \/ BothTerminatedSeen)
          => checks < max_checks
    /\ (oco_pc = "monitor" /\ checks < max_checks) => ENABLED MonitorCycle
    /\ (oco_pc = "monitor" /\ checks >= max_checks) => ENABLED MonitorTimeout
    /\ (oco_pc = "returned" /\ NothingDecisiveSeen) =>
          /\ oco_result = "None"
          /\ checks = max_checks
          /\ cancel_calls = <<>>

C15_Witness ==
    /\ oco_pc = "returned"
    /\ NothingDecisiveSeen
    /\ oco_result = "None"
    /\ max_checks = 3
    /\ checks = 3
    /\ status_queries = 5
    /\ ex_tp = "PARTIALLY_FILLED"

(***************************************************************************)
(* C16.  OCO monitor: a poll in which a status query fails with an error   *)
(* the gateway reports (BinanceAPIException) does not end the monitor: the *)
(* poll issues no cancel call and reads no status, it is counted in        *)
(* checks, the monitor never raises that exception, and while polls remain *)
(* the next poll is possible and queries the take-profit status first and, *)
(* when that answers, the stop-loss status.                                *)
(***************************************************************************)
QueryFailed(poll) ==
    poll.tpq = "api" \/ (poll.tpq = "ok" /\ poll.slq = "api")

C16_PollStep ==
    status_queries' # status_queries =>
        /\ status_queries' =
              status_queries + (IF last_poll'.tpq = "ok" THEN 2 ELSE 1)
        /\ last_poll'.tpq = "ok" => last_poll'.slq \in Outcomes
        /\ QueryFailed(last_poll') =>
              /\ oco_pc' = "monitor"
              /\ checks' = checks + 1
              /\ cancel_calls' = cancel_calls
              /\ tp_status' = tp_status /\ sl_status' = sl_status
              /\ oco_result' = oco_result

C16_State ==
    /\ oco_pc = "raised" => last_poll.exc = "Exception"
    /\ (oco_pc = "monitor" /\ checks < max_checks) => ENABLED MonitorCycle

PlaceLog(ok) ==
    SelectSeq(place_calls, LAMBDA c : c.op = "place" /\ ((c.err = "ok") = ok))

C17_PairOnlyWhenBothLegsPlaced ==
    /\ Len(PlaceLog(FALSE)) >= 1 =>
          /\ place_pc = "raised"
          /\ place_result = <<>>
          /\ place_error = PlaceLog(FALSE)[1].err
          /\ Len(PlaceLog(FALSE)) = 1
    /\ place_pc = "raised" => place_result = <<>>
    /\ place_pc = "returned" <=> place_result # <<>>
    /\ place_result # <<>> =>
          /\ Len(PlaceLog(TRUE)) = 2
          /\ place_result = <<PlaceLog(TRUE)[1].order, PlaceLog(TRUE)[2].order>>
          /\ place_result[1].id = 1 /\ place_result[2].id = 2
          /\ {place_result[1], place_result[2]} = ex_resting

C17_Witness ==
    /\ place_pc = "raised"
    /\ place_error = "BinanceAPIException"
    /\ Len(PlaceLog(TRUE)) = 1
    /\ Len(PlaceLog(FALSE)) = 1
    /\ Cardinality(ex_resting) = 1
    /\ place_result = <<>>

(***************************************************************************)
(* C18.  Cancellation: once the operator's interrupt has been delivered    *)
(* during a sleep or between two cycles of reconcile, TWAP execute or the  *)
(* OCO monitor, the loop has stopped and no step of it is possible; from   *)
(* the delivery on no gateway call of any kind is made (no status query,   *)
(* no price or open-orders fetch, no placement, no cancel) and the orders  *)
(* on the exchange stay as they were.                                      *)
(***************************************************************************)
C18_Stopped ==
    interrupted =>
        /\ oco_pc \in {"idle", "interrupted"}
        /\ twap_pc \in {"idle", "interrupted"}
        /\ grid_pc \in {"idle", "interrupted"}
        /\ ~ENABLED InterruptNext

C18_NoCallStep ==
    interrupted' =>
        UNCHANGED <<cancel_calls, status_queries, ex_tp, ex_sl, twap_calls,
                    executed_orders, grid_calls, price_fetches, ex_open,
                    ex_next_id>>

C18_InterruptStopsLoop == []C18_Stopped /\ [][C18_NoCallStep]_vars

C18_Witness ==
    /\ interrupted
    /\ grid_pc = "interrupted"
    /\ iteration = 1
    /\ Cardinality(ex_open) >= 2
    /\ grid_calls # <<>>
    /\ grid_calls[Len(grid_calls)].op = "rate_sleep"
    /\ missing_sell_prices # {}

(***************************************************************************)
(* C19.  Fatal gateway errors: once a placement of TWAP execute has failed *)
(* with an authentication error, execute has raised: the error propagates  *)
(* at once and no later slice is attempted.                                *)
(***************************************************************************)
AuthFailures == {a \in 1..Len(twap_calls) : twap_calls[a].auth}

C19_AuthFailureAborts ==
    AuthFailures # {} =>
        /\ twap_pc = "raised"
        /\ \A a \in AuthFailures : a = Len(twap_calls)

(***************************************************************************)
(* C20.  Transient gateway errors: in createGrid a placement failure of    *)
(* any kind, a timed-out call like a venue rejection, is skipped: create   *)
(* never raises because of a placement call.                               *)
(***************************************************************************)
C20_PlacementFailureIsLocal ==
    ~(grid_pc = "raised" /\ grid_exc.origin = "create_order")

(***************************************************************************)
(* C21.  Validation precedes the gateway.  create_grid_orders called with  *)
(* lower_price >= upper_price, grid_levels < 2, or an invalid symbol,      *)
(* quantity or lower price, and execute_twap called with num_orders < 1,   *)
(* a duration under one minute, or an invalid symbol, side or quantity,    *)
(* make no gateway call at all (no price fetch, no placement, no order on  *)
(* the exchange) and end with a ValueError.                                *)
(***************************************************************************)
C21_GridPlanInvalid ==
    \/ grid_plan.lower_price >= grid_plan.upper_price
    \/ grid_plan.grid_levels < 2
    \/ ~grid_plan.symbol_ok
    \/ grid_plan.quantity_per_grid < MIN_QUANTITY
    \/ grid_plan.lower_price < MIN_PRICE

C21_TwapPlanInvalid ==
    \/ twap_plan.num_orders < 1
    \/ twap_plan.duration_minutes < 1
    \/ ~twap_plan.symbol_ok
    \/ twap_plan.side \notin {"BUY", "SELL"}
    \/ twap_plan.total_quantity < MIN_QUANTITY

C21_ValidationPrecedesGateway ==
    /\ (grid_pc # "idle" /\ C21_GridPlanInvalid) =>
          /\ grid_pc \in {"create", "raised"}
          /\ price_fetches = 0
          /\ grid_calls = <<>>
          /\ ex_open = {}
          /\ grid_pc = "raised" =>
                grid_exc = [exc |-> "ValueError", origin |-> "validation"]
    /\ (twap_pc # "idle" /\ C21_TwapPlanInvalid) =>
          /\ twap_pc \in {"entry", "raised"}
          /\ twap_calls = <<>>
          /\ executed_orders = <<>>
          /\ twap_pc = "raised" => twap_exc = "ValueError"

C21_Witness ==
    /\ grid_pc = "raised"
    /\ grid_plan.lower_price < MIN_PRICE
    /\ grid_plan.lower_price < grid_plan.upper_price
    /\ grid_plan.grid_levels >= 2
    /\ grid_plan.symbol_ok
    /\ grid_plan.quantity_per_grid >= MIN_QUANTITY
    /\ price_fetches = 0
    /\ grid_calls = <<>>

(***************************************************************************)
(* C22.  OCO place validates both plan prices: a call whose                *)
(* stop_loss_price is not positive or is under the minimum price makes no  *)
(* gateway call and ends with a ValueError, as a call with such a          *)
(* take_profit_price does.                                                 *)
(***************************************************************************)
C22_RejectedBeforeGateway ==
    /\ place_pc \in {"entry", "raised"}
    /\ place_calls = <<>>
    /\ ex_resting = {}
    /\ place_pc = "raised" => place_error = "ValueError"

C22_BothPricesValidated ==
    /\ (place_pc # "idle" /\ place_plan.take_profit_price < MIN_PRICE) =>
          C22_RejectedBeforeGateway
    /\ (place_pc # "idle" /\ place_plan.stop_loss_price < MIN_PRICE) =>
          C22_RejectedBeforeGateway

(***************************************************************************)
(* C23.  TWAP summarize never divides by zero, whatever the ledger, and    *)
(* on an empty ledger it returns a summary that has every one of its six   *)
(* fields, each with value zero.                                           *)
(***************************************************************************)
C23_NoDivisionByZero == summary_pc # "raised"

C23_EmptyLedgerAllZero ==
    /\ C23_NoDivisionByZero
    /\ (summary_pc = "returned" /\ summary_orders = <<>>) =>
          /\ {item[1] : item \in summary} = SummaryKeys
          /\ \A item \in summary : item[2].num = 0

(***************************************************************************)
(* C24.  TWAP summarize: for every ledger whose filled quantities sum to   *)
(* more than zero, the average price returned equals the sum of            *)
(* avgPrice * executedQty over all entries of the ledger divided by the    *)
(* sum of executedQty over all entries (an entry without avgPrice counts   *)
(* with price 0, the default the code reads).                              *)
(***************************************************************************)
RECURSIVE C24_Notional(_)
C24_Notional(n) ==
    IF n = 0 THEN 0
    ELSE summary_orders[n].avgPrice.v * summary_orders[n].executedQty
            + C24_Notional(n - 1)

RECURSIVE C24_Filled(_)
C24_Filled(n) ==
    IF n = 0 THEN 0
    ELSE summary_orders[n].executedQty + C24_Filled(n - 1)

C24_Field(key) == (CHOOSE item \in summary : item[1] = key)[2]

C24_WeightedAverage ==
    (summary_pc = "returned" /\ C24_Filled(Len(summary_orders)) > 0) =>
        /\ \E item \in summary : item[1] = "average_price"
        /\ C24_Field("average_price").den > 0
        /\ C24_Field("average_price").num * C24_Filled(Len(summary_orders))
             = C24_Notional(Len(summary_orders))
                  * C24_Field("average_price").den

C24_Witness ==
    /\ summary_pc = "returned"
    /\ Len(summary_orders) = 2
    /\ \E k \in 1..2 :
          /\ ~HasAvgPrice(summary_orders[k])
          /\ summary_orders[k].executedQty = 1
    /\ \E k \in 1..2 :
          /\ summary_orders[k].avgPrice = [kind |-> "str", v |-> 1000 * TickUnits]
          /\ summary_orders[k].executedQty = 2
    /\ C24_Field("average_price").num * 3
          = 2 * 1000 * TickUnits * C24_Field("average_price").den

(***************************************************************************)
(* C25.  TWAP execute: every child order requests the same quantity,       *)
(* total_quantity / num_orders, and every sleep between slices lasts       *)
(* duration_minutes * 60 / num_orders seconds; no slice is given another   *)
(* quantity to absorb a remainder, so when each of the num_orders slices   *)
(* has requested its order the requested quantities sum to                 *)
(* total_quantity.  In the scenario (0.1 over 10 minutes in 5 slices)      *)
(* each order requests 0.02 and each sleep lasts 120 seconds.              *)
(***************************************************************************)
C25_Calls(op) == {a \in 1..Len(twap_calls) : twap_calls[a].op = op}

RECURSIVE C25_RequestedNum(_)
C25_RequestedNum(n) ==
    IF n = 0 THEN 0
    ELSE (IF twap_calls[n].op = "place" THEN twap_calls[n].arg.num ELSE 0)
            + C25_RequestedNum(n - 1)

C25_EqualSlices ==
    twap_pc \in {"loop", "returned", "raised", "interrupted"} =>
        /\ \A a \in C25_Calls("place") :
              /\ twap_calls[a].arg.den > 0
              /\ twap_calls[a].arg.num * twap_plan.num_orders
                    = twap_plan.total_quantity * twap_calls[a].arg.den
              /\ \A b \in C25_Calls("place") :
                    twap_calls[b].arg = twap_calls[a].arg
        /\ \A a \in C25_Calls("sleep") :
              /\ twap_calls[a].arg.den > 0
              /\ twap_calls[a].arg.num * twap_plan.num_orders
                    = twap_plan.duration_minutes * 60 * twap_calls[a].arg.den
        /\ Cardinality(C25_Calls("place")) = twap_plan.num_orders =>
              \A a \in C25_Calls("place") :
                 C25_RequestedNum(Len(twap_calls))
                    = twap_plan.total_quantity * twap_calls[a].arg.den
        /\ twap_plan = ScenarioTwapPlan =>
              /\ \A a \in C25_Calls("place") :
                    twap_calls[a].arg.num = 20 * twap_calls[a].arg.den
              /\ \A a \in C25_Calls("sleep") :
                    twap_calls[a].arg.num = 120 * twap_calls[a].arg.den

C25_Witness ==
    /\ twap_pc = "returned"
    /\ twap_plan.total_quantity = 1
    /\ twap_plan.num_orders = 3
    /\ Cardinality(C25_Calls("place")) = 3
    /\ Cardinality(C25_Calls("sleep")) = 2
    /\ Len(executed_orders) = 3

(***************************************************************************)
(* C26.  Grid price levels: for every plan with grid_levels >= 2 and       *)
(* lower_price < upper_price, the rounded grid prices are grid_levels      *)
(* distinct prices; the lowest is lower_price and the highest upper_price  *)
(* (to within half a tick, the rounding), and consecutive levels lie       *)
(* (upper_price - lower_price) / (grid_levels - 1) apart (to within one    *)
(* tick).                                                                  *)
(***************************************************************************)
C26_Levels == {GridPrice(grid_plan, idx) : idx \in 0..(grid_plan.grid_levels - 1)}

C26_Near(x, y, tolerance) == x - y <= tolerance /\ y - x <= tolerance

C26_LevelsAreDistinctAndEven ==
    (/\ grid_pc # "idle"
     /\ grid_plan.grid_levels >= 2
     /\ grid_plan.lower_price < grid_plan.upper_price) =>
        /\ Cardinality(C26_Levels) = grid_plan.grid_levels
        /\ \A p \in C26_Levels :
              /\ p >= GridPrice(grid_plan, 0)
              /\ p <= GridPrice(grid_plan, grid_plan.grid_levels - 1)
        /\ C26_Near(2 * GridPrice(grid_plan, 0),
                    2 * grid_plan.lower_price, TickUnits)
        /\ C26_Near(2 * GridPrice(grid_plan, grid_plan.grid_levels - 1),
                    2 * grid_plan.upper_price, TickUnits)
        /\ \A idx \in 0..(grid_plan.grid_levels - 2) :
              C26_Near((GridPrice(grid_plan, idx + 1) - GridPrice(grid_plan, idx))
                          * (grid_plan.grid_levels - 1),
                       grid_plan.upper_price - grid_plan.lower_price,
                       TickUnits * (grid_plan.grid_levels - 1))

(***************************************************************************)
(* C27.  Rate-limit spacing: in create_grid_orders and in a reconcile      *)
(* cycle, every placement call, confirmed or failed, is followed by the    *)
(* rate-limit sleep before the next placement call: no two placement       *)
(* calls are issued back to back.                                          *)
(***************************************************************************)
C27_DelayAfterEveryPlacement ==
    \A a \in 1..(Len(grid_calls) - 1) :
        grid_calls[a].op = "place" => grid_calls[a + 1].op = "rate_sleep"

(***************************************************************************)
(* C28.  OCO place: every order place submits is reduce-only, on the       *)
(* plan's side and for the plan's quantity; when place returns it has      *)
(* submitted exactly two orders, first the take-profit, a LIMIT order at   *)
(* take_profit_price, then the stop-loss, a STOP_MARKET order triggered    *)
(* at stop_loss_price.                                                     *)
(***************************************************************************)
C28_Submitted == SelectSeq(place_calls, LAMBDA c : c.op = "place")

C28_ClosesOnly(order) ==
    /\ order.reduceOnly
    /\ order.side = place_plan.side
    /\ order.quantity = place_plan.quantity

C28_TwoReduceOnlyOrders ==
    /\ \A a \in 1..Len(C28_Submitted) : C28_ClosesOnly(C28_Submitted[a].order)
    /\ place_pc = "returned" =>
          /\ Len(C28_Submitted) = 2
          /\ C28_Submitted[1].order.type = "LIMIT"
          /\ C28_Submitted[1].order.price = place_plan.take_profit_price
          /\ C28_Submitted[1].err = "ok"
          /\ C28_Submitted[2].order.type = "STOP_MARKET"
          /\ C28_Submitted[2].order.stopPrice = place_plan.stop_loss_price
          /\ C28_Submitted[2].err = "ok"
          /\ Cardinality(ex_resting) = 2
          /\ \A o \in ex_resting : o.reduceOnly

C28_Witness ==
    /\ place_pc = "returned"
    /\ place_plan.side = "SELL"
    /\ place_plan.take_profit_price = 3 * TickUnits
    /\ place_plan.stop_loss_price = 2 * TickUnits
    /\ Len(C28_Submitted) = 2
    /\ Cardinality(ex_resting) = 2

(***************************************************************************)
(* C29.  Grid reconcile validates its plan: monitor_and_rebalance_grid     *)
(* called with grid_levels < 2 or lower_price >= upper_price makes no      *)
(* gateway call (no price fetch, no open-orders fetch, no placement) and   *)
(* ends with a ValueError of the validation.                               *)
(***************************************************************************)
C29_ReconcileValidatesPlan ==
    (/\ grid_pc # "idle"
     /\ \/ grid_plan.grid_levels < 2
        \/ grid_plan.lower_price >= grid_plan.upper_price) =>
        /\ grid_pc \in {"create", "loop", "raised"}
        /\ iteration = 0
        /\ price_fetches = 0
        /\ grid_calls = <<>>
        /\ ex_open = {}
        /\ grid_pc = "raised" =>
              grid_exc = [exc |-> "ValueError", origin |-> "validation"]

(***************************************************************************)
(* C30.  OCO monitor: the value returned identifies the terminal state     *)
(* reached.  A timeout (max_checks polls, none of which read a FILLED leg *)
(* or both legs terminated) returns None, and a return after both legs     *)
(* were read CANCELED or EXPIRED carries another value, one that is        *)
(* neither None nor 'TP' nor 'SL'.                                         *)
(***************************************************************************)
C30_TimedOut == NothingDecisiveSeen /\ checks = max_checks

C30_ResultIdentifiesTerminalState ==
    oco_pc = "returned" =>
        /\ C30_TimedOut => oco_result = "None"
        /\ BothTerminatedSeen => oco_result \notin {"TP", "SL", "None"}

(***************************************************************************)
(* C31.  TWAP execute: a price fetch the gateway answers with an error     *)
(* (BinanceAPIException, other than the invalid-symbol code that           *)
(* get_current_price turns into a ValueError) is slice-local: execute does *)
(* not raise because of it, no placement is issued for that slice, and the *)
(* schedule goes on with the next slice, whose price fetch is the next     *)
(* gateway call.                                                           *)
(***************************************************************************)
C31_FailedFetches ==
    {a \in 1..Len(twap_calls) :
        /\ twap_calls[a].op = "price"
        /\ ~twap_calls[a].ok
        /\ ~(/\ a = Len(twap_calls)
             /\ twap_pc = "raised"
             /\ twap_exc \in {"ValueError", "Exception"})}

C32_Reconciled(side) ==
    MissingPrices(ExpectedPrices(grid_plan, current_price, side),
                  OpenPrices(open_orders, side))

C32_EarlierPlaced(side) ==
    LET placed == IF side = "BUY" THEN buy_orders ELSE sell_orders
    IN {placed[a].price : a \in 1..Len(placed)}

C32_NoMemoryBetweenCycles ==
    \A side \in {"BUY", "SELL"} :
      /\ InCycle => PlacedPrices(side) \subseteq C32_Reconciled(side)
      /\ CycleComplete =>
           /\ PlacedPrices(side) = C32_Reconciled(side)
           /\ \A p \in C32_EarlierPlaced(side)
                         \cap ExpectedPrices(grid_plan, current_price, side) :
                 p \notin PlacedPrices(side) <=> HasOpenAt(side, p)

C32_Witness ==
    /\ CycleComplete
    /\ \E p, q \in C32_EarlierPlaced("BUY") :
         /\ p # q
         /\ ~HasOpenAt("BUY", p)
         /\ p \in PlacedPrices("BUY")
         /\ HasOpenAt("BUY", q)
         /\ q \in ExpectedPrices(grid_plan, current_price, "BUY")
         /\ q \notin PlacedPrices("BUY")

(***************************************************************************)
(* C33.  The Grid controller never issues a cancel: every gateway call of  *)
(* create_grid_orders and of the reconcile cycles is a placement (the      *)
(* only other entries of the call log are sleeps); an order the fetched    *)
(* list shows is still resting while the cycle places, whether or not it   *)
(* is in the expected set; and of all the orders ever accepted, the only   *)
(* ones missing from the exchange are those the exchange itself ended.     *)
(***************************************************************************)
C33_GridOps == {"place", "rate_sleep", "interval_sleep"}

C33_EndedOrders ==
    {id \in 1..(ex_next_id - 1) : ~\E o \in ex_open : o.id = id}

C33_Stale(o) ==
    o.price \notin ExpectedPrices(grid_plan, current_price, o.side)

C33_NeverCancels ==
    /\ \A a \in 1..Len(grid_calls) : grid_calls[a].op \in C33_GridOps
    /\ grid_pc = "placing" => open_orders \subseteq ex_open
    /\ Cardinality(C33_EndedOrders) <= env_steps

C33_Witness ==
    /\ grid_pc = "placing"
    /\ PlaceCount(grid_calls) >= 1
    /\ \E o \in open_orders :
         /\ o.side = "BUY"
         /\ o.price \in C32_EarlierPlaced("BUY")
         /\ o.price >= current_price
         /\ C33_Stale(o)
         /\ o \in ex_open

(***************************************************************************)
(* C34.  Grid has no duplicate resting orders: once create_grid_orders     *)
(* has returned, and through every reconcile cycle after it, the exchange  *)
(* (whose open-order list holds every accepted order that has not ended)   *)
(* has at most one open order of a side at a grid price of the plan.       *)
(***************************************************************************)
C34_EnginePlaced == {o \in ex_open : o.price \in C26_Levels}

C34_NoDuplicateRestingOrders ==
    (/\ grid_pc \in {"created", "loop", "placing", "finished"}
     /\ Len(buy_orders) + Len(sell_orders) >= 1) =>
        \A o1, o2 \in C34_EnginePlaced :
            (o1.side = o2.side /\ o1.price = o2.price) => o1 = o2

(***************************************************************************)
(* C35.  OCO place issues no compensating cancel: when the take-profit     *)
(* placement succeeded and the stop-loss placement failed, the failed      *)
(* stop-loss placement is the last call place_oco_order made, the error    *)
(* raised is that failure, and the take-profit order is the one order      *)
(* resting on the exchange.                                                *)
(***************************************************************************)
C35_StopLossFailed ==
    /\ Len(PlaceLog(TRUE)) = 1
    /\ Len(PlaceLog(FALSE)) = 1
    /\ PlaceLog(TRUE)[1].order.id = TP_ORDER_ID
    /\ PlaceLog(FALSE)[1].order.id = SL_ORDER_ID

C35_NoCompensatingCancel ==
    C35_StopLossFailed =>
        /\ place_calls[Len(place_calls)] = PlaceLog(FALSE)[1]
        /\ \A a \in 1..Len(place_calls) :
              place_calls[a].op \in {"price", "place", "sleep"}
        /\ place_pc = "raised"
        /\ place_error = PlaceLog(FALSE)[1].err
        /\ ex_resting = {TakeProfitOrder(place_plan)}

C35_Witness ==
    /\ C35_StopLossFailed
    /\ place_pc = "raised"
    /\ place_error = "Exception"
    /\ TakeProfitOrder(place_plan) \in ex_resting
    /\ StopLossOrder(place_plan) \notin ex_resting

(***************************************************************************)
(* C36.  OCO monitor with one dead leg: a poll that reads one leg          *)
(* CANCELED, EXPIRED or REJECTED and the other leg open (NEW or            *)
(* PARTIALLY_FILLED) does not stop the monitor and cancels nothing: it is  *)
(* counted in checks and the next poll is possible while polls remain;     *)
(* and when the monitor returns with that reading as its last one, it has  *)
(* run max_checks polls, returns None (the timeout result) and has issued  *)
(* no cancel call.                                                         *)
(***************************************************************************)
DeadStatus == {"CANCELED", "EXPIRED", "REJECTED"}

OneDeadLeg(tps, sls) ==
    \/ tps \in DeadStatus /\ sls \in OpenStatus
    \/ sls \in DeadStatus /\ tps \in OpenStatus

C36_ReadingPoll ==
    /\ status_queries' = status_queries + 2
    /\ last_poll'.exc = "none"
    /\ OneDeadLeg(tp_status', sl_status')

C36_PollStep ==
    C36_ReadingPoll =>
        /\ oco_pc' = "monitor"
        /\ oco_result' = "pending"
        /\ checks' = checks + 1
        /\ cancel_calls' = cancel_calls
        /\ ex_tp' = ex_tp /\ ex_sl' = ex_sl

C36_State ==
    OneDeadLeg(tp_status, sl_status) =>
        /\ cancel_calls = <<>>
        /\ checks >= 1
        /\ (oco_pc = "monitor" /\ checks < max_checks) => ENABLED MonitorCycle
        /\ (oco_pc = "monitor" /\ checks >= max_checks) => ENABLED MonitorTimeout
        /\ oco_pc = "returned" =>
              /\ oco_result = "None"
              /\ checks = max_checks

C36_OneDeadLegKeepsPolling == []C36_State /\ [][C36_PollStep]_vars

C36_Witness ==
    /\ oco_pc = "returned"
    /\ oco_result = "None"
    /\ max_checks = 3
    /\ checks = 3
    /\ status_queries = 6
    /\ tp_status = "REJECTED"
    /\ sl_status = "PARTIALLY_FILLED"
    /\ ex_sl = "PARTIALLY_FILLED"
    /\ cancel_calls = <<>>

(***************************************************************************)
(* C37.  TWAP never over-trades: in one run of execute_twap every slice    *)
(* index gets at most one price fetch and at most one placement call, in   *)
(* increasing order of the index (a failed slice is not gone back to), a   *)
(* placement after a failed one still requests total_quantity /            *)
(* num_orders, there are at most num_orders placement calls, and the       *)
(* quantities they request sum to at most total_quantity.                  *)
(***************************************************************************)
C37_NeverOverTrades ==
    /\ \A a \in 1..Len(twap_calls) :
          /\ twap_calls[a].slice \in 0..(twap_plan.num_orders - 1)
          /\ \A b \in 1..Len(twap_calls) :
                a < b => twap_calls[a].slice <= twap_calls[b].slice
    /\ \A k \in 0..MaxSlices :
          /\ Cardinality(CallsOf("price", k)) <= 1
          /\ Cardinality(CallsOf("place", k)) <= 1
    /\ Cardinality(C25_Calls("place")) <= twap_plan.num_orders
    /\ Len(executed_orders) <= Cardinality(C25_Calls("place"))
    /\ \A a \in C25_Calls("place") :
          /\ twap_calls[a].arg.den > 0
          /\ twap_calls[a].arg.num * twap_plan.num_orders
                = twap_plan.total_quantity * twap_calls[a].arg.den
          /\ C25_RequestedNum(Len(twap_calls))
                <= twap_plan.total_quantity * twap_calls[a].arg.den

C37_Witness ==
    /\ twap_pc = "returned"
    /\ twap_plan.num_orders = 3
    /\ twap_plan.total_quantity = 3
    /\ \E a \in CallsOf("place", 0) : ~twap_calls[a].ok
    /\ CallsOf("place", 1) = {}
    /\ \E a \in CallsOf("place", 2) : twap_calls[a].ok
    /\ Cardinality(C25_Calls("place")) = 2
    /\ C25_RequestedNum(Len(twap_calls)) = 6
    /\ Len(executed_orders) = 1

(***************************************************************************)
(* C38.  TWAP child orders respect the minimum order quantity: the         *)
(* quantity of every placement call of execute_twap, total_quantity /      *)
(* num_orders, is at least MIN_QUANTITY.                                   *)
(***************************************************************************)
C38_ChildOrdersRespectMinimum ==
    \A a \in C25_Calls("place") :
        /\ twap_calls[a].arg.den > 0
        /\ twap_calls[a].arg.num >= MIN_QUANTITY * twap_calls[a].arg.den

=============================================================================
